---- MODULE Spec2Model ----
(***************************************************************************)
(* The lexical scanner of the Lox tokenizer.  Two engines are modelled:    *)
(* the Scanner class (scanner/Scanner.cpp), whose cursor lives in the      *)
(* object, and the tokenize loop of main.cpp, whose cursor lives in main.  *)
(* Both drive the same ordered pipeline of seven matchers over a           *)
(* ScanContext and consult the same OperatorTrie and keyword map.          *)
(*                                                                         *)
(* A character is a one-character string, a text is a sequence of          *)
(* characters.  Offsets are 0-based as in the code: the character at       *)
(* offset p of a text s is s[p + 1].                                       *)
(***************************************************************************)
EXTENDS Integers, Sequences, FiniteSets, TLC

VARIABLES
  engine,          \* "scanner": Scanner::scanAndPrintTokens; "main": main()
  source_view,     \* the borrowed source text
  current_pos,     \* Scanner::current_pos_ / main's current_pos
  current_line,    \* Scanner::current_line_ / main's current_line
  in_error_flag,   \* Scanner::in_error_flag_ / main's in_error
  pc,              \* "ready", "loop" (inside the while loop), "exited"
  out,             \* lines printed to stdout by the call in progress (tokens)
  err,             \* lines printed to stderr by the call in progress
  steps,           \* the driver iterations of the call in progress
  runs,            \* the completed calls, oldest first
  invocation,      \* main: argc, argv[1] and whether argv[2] can be opened
  exit_status,     \* main: <<>> while it runs, <<status>> once it returned
  op_trie,         \* the nodes of the OperatorTrie
  keywords_map,    \* Scanner::keywords_map_ / main's keywords_map
  op_inserted,     \* the insert calls made on it, oldest first
  op_result        \* <<>>, or the last searchLongestMatch call and its result

vars == <<engine, source_view, current_pos, current_line, in_error_flag,
          pc, out, err, steps, runs, invocation, exit_status,
          op_trie, keywords_map, op_inserted, op_result>>

-----------------------------------------------------------------------------
(* Call by value.  An operator's argument is evaluated where the operator  *)
(* uses it, once per use; the bound variable of a set constructor holds    *)
(* a value.  Apply(F, v) is F(v) with v evaluated once.                    *)

Apply(F(_), v) == CHOOSE y \in {F(x) : x \in {v}} : TRUE

Apply2(F(_, _), v, w) == CHOOSE y \in {F(x, z) : x \in {v}, z \in {w}} : TRUE

-----------------------------------------------------------------------------
(* Characters and their <cctype> classes in the "C" locale.                *)

NL == "\n"
QUOTE == "\""
\* "\v" is no TLA+ escape: the two-character string stands for byte 0x0B.
VT == "\\v"

Digit == {"0", "1", "2", "3", "4", "5", "6", "7", "8", "9"}

Lower == {"a", "b", "c", "d", "e", "f", "g", "h", "i", "j", "k", "l", "m",
          "n", "o", "p", "q", "r", "s", "t", "u", "v", "w", "x", "y", "z"}

Upper == {"A", "B", "C", "D", "E", "F", "G", "H", "I", "J", "K", "L", "M",
          "N", "O", "P", "Q", "R", "S", "T", "U", "V", "W", "X", "Y", "Z"}

isspace(c) == c \in {" ", "\t", NL, VT, "\f", "\r"}

isdigit(c) == c \in Digit

isalpha(c) == c \in Lower \cup Upper

isalnum(c) == isalpha(c) \/ isdigit(c)

isIdentifierStartChar(c) == isalpha(c) \/ c = "_"

isIdentifierPartChar(c) == isalnum(c) \/ c = "_"

\* the characters isIdentifierPartChar holds of
IdentifierPartChars ==
  {c \in Lower \cup Upper \cup Digit \cup {"_"} : isIdentifierPartChar(c)}

-----------------------------------------------------------------------------
(* std::string_view helpers.                                               *)

\* std::string_view::npos
npos == -1

Min(S) == CHOOSE m \in S : \A n \in S : m <= n

\* view.substr(pos, n), n clamped to the end of the view
substr(view, pos, n) ==
  SubSeq(view, pos + 1, IF pos + n > Len(view) THEN Len(view) ELSE pos + n)

\* view.substr(pos)
substrFrom(view, pos) == SubSeq(view, pos + 1, Len(view))

\* view.find(ch, from): the first offset >= from holding ch, or npos
find(view, ch, from) ==
  LET hits == {i \in from .. Len(view) - 1 : view[i + 1] = ch}
  IN  IF hits = {} THEN npos ELSE Min(hits)

\* view.starts_with(prefix)
starts_with(view, prefix) ==
  Len(view) >= Len(prefix) /\ SubSeq(view, 1, Len(prefix)) = prefix

\* std::ranges::find_if_not(view, pred) as a distance from view.begin(),
\* for pred the membership in a class of characters: the first offset whose
\* character is outside the class, or the view's length
DistanceToNot(view, class) ==
  LET stops == {i \in 0 .. Len(view) - 1 : view[i + 1] \notin class}
  IN  IF stops = {} THEN Len(view) ELSE Min(stops)

-----------------------------------------------------------------------------
(* OperatorTrie.  The nodes are numbered in creation order, the root is    *)
(* node 1; a node is its children map (character -> node) and its          *)
(* optional token_type.                                                    *)

\* std::nullopt
nullopt == "<nullopt>"

TrieNode == [children |-> <<>>, token_type |-> nullopt]

isEndOfToken(node) == node.token_type # nullopt

\* OperatorTrie::OperatorTrie(): the root alone
OperatorTrie == <<TrieNode>>

RECURSIVE insertWalk(_, _, _, _, _)
insertWalk(nodes, current_node, lexeme, i, tokenType) ==
  IF i > Len(lexeme)
  THEN [nodes EXCEPT ![current_node].token_type = tokenType]
  ELSE LET ch == lexeme[i]
       IN  IF ch \notin DOMAIN nodes[current_node].children
           THEN LET fresh == Len(nodes) + 1
                    linked == [nodes EXCEPT ![current_node].children =
                                 (ch :> fresh) @@ @]
                IN  Apply(LAMBDA grown :
                            insertWalk(grown, Len(grown), lexeme, i + 1,
                                       tokenType),
                          Append(linked, TrieNode))
           ELSE insertWalk(nodes, nodes[current_node].children[ch], lexeme,
                           i + 1, tokenType)

\* An insert that gives the type to every node on the way to the lexeme's.
RECURSIVE insertMarkingPath(_, _, _, _)
insertMarkingPath(nodes, lexeme, tokenType, k) ==
  IF k > Len(lexeme) THEN nodes
  ELSE Apply(LAMBDA trie : insertMarkingPath(trie, lexeme, tokenType, k + 1),
             insertWalk(nodes, 1, SubSeq(lexeme, 1, k), 1, tokenType))

insertMarkingPrefixes(nodes, lexeme, tokenType) ==
  Apply(LAMBDA trie : insertMarkingPath(trie, lexeme, tokenType, 1), nodes)

\* OperatorTrie::insert
insert(nodes, lexeme, tokenType) ==
  Apply(LAMBDA trie : insertWalk(trie, 1, lexeme, 1, tokenType), nodes)

RECURSIVE searchWalk(_, _, _, _, _, _)
searchWalk(nodes, text_view, i, current_node, longest_match_length, type_of_longest_match) ==
  IF ~(i < Len(text_view))
  THEN <<longest_match_length, type_of_longest_match>>
  ELSE LET ch == text_view[i + 1]
       IN  IF ch \notin DOMAIN nodes[current_node].children
           THEN <<longest_match_length, type_of_longest_match>>
           ELSE LET child == nodes[current_node].children[ch]
                IN  IF isEndOfToken(nodes[child])
                    THEN searchWalk(nodes, text_view, i + 1, child, i + 1,
                                    nodes[child].token_type)
                    ELSE searchWalk(nodes, text_view, i + 1, child,
                                    longest_match_length,
                                    type_of_longest_match)

\* A search that stops at the first terminal node it meets: the shortest
\* registered lexeme the text begins with.
searchShortestMatch(nodes, text_view) ==
  LET first == IF text_view = <<>> THEN <<>> ELSE <<text_view[1]>>
  IN  Apply(LAMBDA short :
              IF short[1] > 0 THEN short
              ELSE searchWalk(nodes, text_view, 0, 1, 0, nullopt),
            searchWalk(nodes, first, 0, 1, 0, nullopt))

\* A search that keeps the last node it walked to, a token's end or not.
RECURSIVE searchDeepestWalk(_, _, _, _)
searchDeepestWalk(nodes, text_view, i, current_node) ==
  IF i < Len(text_view)
     /\ text_view[i + 1] \in DOMAIN nodes[current_node].children
  THEN searchDeepestWalk(nodes, text_view, i + 1,
                         nodes[current_node].children[text_view[i + 1]])
  ELSE <<i, nodes[current_node].token_type>>

searchDeepestNode(nodes, text_view) ==
  Apply(LAMBDA text : searchDeepestWalk(nodes, text, 0, 1), text_view)

\* OperatorTrie::searchLongestMatch: <<length, optional type>>
searchLongestMatch(nodes, text_view) ==
  Apply(LAMBDA text : searchWalk(nodes, text, 0, 1, 0, nullopt), text_view)

\* The insert calls of the Scanner constructor (and of main), in order.
OperatorTable ==
  << << <<"=", "=">>, "EQUAL_EQUAL" >>,
     << <<"!", "=">>, "BANG_EQUAL" >>,
     << <<"<", "=">>, "LESS_EQUAL" >>,
     << <<">", "=">>, "GREATER_EQUAL" >>,
     << <<"(">>, "LEFT_PAREN" >>,
     << <<")">>, "RIGHT_PAREN" >>,
     << <<"{">>, "LEFT_BRACE" >>,
     << <<"}">>, "RIGHT_BRACE" >>,
     << <<",">>, "COMMA" >>,
     << <<".">>, "DOT" >>,
     << <<"-">>, "MINUS" >>,
     << <<"+">>, "PLUS" >>,
     << <<";">>, "SEMICOLON" >>,
     << <<"*">>, "STAR" >>,
     << <<"=">>, "EQUAL" >>,
     << <<"!">>, "BANG" >>,
     << <<"<">>, "LESS" >>,
     << <<">">>, "GREATER" >>,
     << <<"/">>, "SLASH" >> >>

RECURSIVE insertAll(_, _, _)
insertAll(nodes, table, k) ==
  IF k > Len(table) THEN nodes
  ELSE Apply(LAMBDA trie : insertAll(trie, table, k + 1),
             insert(nodes, table[k][1], table[k][2]))

\* Scanner::operator_trie_ after the constructor; main's operator_trie
operator_trie_ == insertAll(OperatorTrie, OperatorTable, 1)

\* Scanner::keywords_map_ after the constructor; main's keywords_map
keywords_map_ ==
  { << <<"a", "n", "d">>, "AND" >>,
    << <<"c", "l", "a", "s", "s">>, "CLASS" >>,
    << <<"e", "l", "s", "e">>, "ELSE" >>,
    << <<"f", "a", "l", "s", "e">>, "FALSE" >>,
    << <<"f", "o", "r">>, "FOR" >>,
    << <<"f", "u", "n">>, "FUN" >>,
    << <<"i", "f">>, "IF" >>,
    << <<"n", "i", "l">>, "NIL" >>,
    << <<"o", "r">>, "OR" >>,
    << <<"p", "r", "i", "n", "t">>, "PRINT" >>,
    << <<"r", "e", "t", "u", "r", "n">>, "RETURN" >>,
    << <<"s", "u", "p", "e", "r">>, "SUPER" >>,
    << <<"t", "h", "i", "s">>, "THIS" >>,
    << <<"t", "r", "u", "e">>, "TRUE" >>,
    << <<"v", "a", "r">>, "VAR" >>,
    << <<"w", "h", "i", "l", "e">>, "WHILE" >> }

\* A lookup that hits when the lexeme begins with a keyword.
keywordsFindPrefix(keywords, lexeme) ==
  IF \E kw \in keywords : starts_with(lexeme, kw[1])
  THEN (CHOOSE kw \in keywords : starts_with(lexeme, kw[1]))[2]
  ELSE nullopt

\* keywords.find(lexeme): the mapped type, or nullopt for keywords.end()
keywordsFind(keywords, lexeme) ==
  IF \E kw \in keywords : kw[1] = lexeme
  THEN (CHOOSE kw \in keywords : kw[1] = lexeme)[2]
  ELSE nullopt

-----------------------------------------------------------------------------
(* double, std::stod and formatDoubleForLoxLiteral.                        *)
(*                                                                         *)
(* A number lexeme is digits, optionally followed by "." and digits.  Its  *)
(* double is kept as an exact decimal: the digits of the integer part      *)
(* (no leading zero, empty for 0) and of the fraction (no trailing zero,   *)
(* empty for an integral value).  An integral lexeme is rounded to the     *)
(* nearest double (53-bit significand, ties to even) by arithmetic on its  *)
(* decimal digits, so the decimal is the double's exact value.  A lexeme   *)
(* with a non-zero fraction is kept as written: with at most DBL_DIG       *)
(* significant digits the nearest double is never integral and prints      *)
(* back, at 15 significant digits, as the decimal it was read from; the    *)
(* sources of Init keep such lexemes within DBL_DIG digits.                *)

DBL_MANT_DIG == 53
DBL_MAX_EXP == 1024
DBL_DIG == 15

DigitChars == <<"0", "1", "2", "3", "4", "5", "6", "7", "8", "9">>

DigitVal(c) == (CHOOSE d \in 1 .. 10 : DigitChars[d] = c) - 1

ToVals(text) ==
  Apply(LAMBDA t : SubSeq([i \in 1 .. Len(t) |-> DigitVal(t[i])], 1, Len(t)),
        text)

ToChars(vals) ==
  Apply(LAMBDA v : SubSeq([i \in 1 .. Len(v) |-> DigitChars[v[i] + 1]],
                          1, Len(v)),
        vals)

IsZero(n) == Apply(LAMBDA v : \A i \in 1 .. Len(v) : v[i] = 0, n)

IsOdd(n) == Apply(LAMBDA v : Len(v) > 0 /\ v[Len(v)] % 2 = 1, n)

StripLeadingZeros(n) ==
  Apply(LAMBDA v :
          Apply(LAMBDA nz : IF nz = {} THEN <<>>
                            ELSE SubSeq(v, Min(nz), Len(v)),
                {i \in 1 .. Len(v) : v[i] # 0}),
        n)

StripTrailingZeros(n) ==
  Apply(LAMBDA v :
          Apply(LAMBDA nz : IF nz = {} THEN <<>>
                            ELSE SubSeq(v, 1, CHOOSE m \in nz :
                                                \A k \in nz : k <= m),
                {i \in 1 .. Len(v) : v[i] # 0}),
        n)

\* n div 2 on decimal digits (the length is kept)
Half(n) ==
  Apply(LAMBDA v :
          SubSeq([i \in 1 .. Len(v) |->
                    ((IF i = 1 THEN 0 ELSE v[i - 1] % 2) * 10 + v[i]) \div 2],
                 1, Len(v)),
        n)

\* 2 * n on decimal digits
Twice(n) ==
  Apply(LAMBDA m :
          StripLeadingZeros(
            SubSeq([i \in 1 .. Len(m) |->
                      ((2 * m[i]) % 10)
                      + (IF i < Len(m) /\ m[i + 1] >= 5 THEN 1 ELSE 0)],
                   1, Len(m))),
        <<0>> \o n)

\* n + 1 on decimal digits
PlusOne(n) ==
  Apply(LAMBDA m :
          Apply(LAMBDA k :
                  StripLeadingZeros(
                    SubSeq([i \in 1 .. Len(m) |->
                              IF i < k THEN m[i]
                              ELSE IF i = k THEN m[i] + 1 ELSE 0],
                           1, Len(m))),
                CHOOSE j \in 1 .. Len(m) :
                  m[j] # 9 /\ \A l \in j + 1 .. Len(m) : m[l] = 9),
        <<0>> \o n)

\* n div 2^k and n * 2^k, by halving k
RECURSIVE HalfN(_, _)
HalfN(n, k) ==
  IF k <= 0 THEN n
  ELSE IF k = 1 THEN Half(n)
  ELSE Apply(LAMBDA m : HalfN(m, k - k \div 2), HalfN(n, k \div 2))

RECURSIVE TwiceN(_, _)
TwiceN(n, k) ==
  IF k <= 0 THEN n
  ELSE IF k = 1 THEN Twice(n)
  ELSE Apply(LAMBDA m : TwiceN(m, k - k \div 2), TwiceN(n, k \div 2))

\* the number of binary digits of n: the least k with n div 2^k = 0,
\* found by bisection between lo (n div 2^lo # 0, or lo = 0) and hi;
\* part is n div 2^lo
RECURSIVE BitLenBetween(_, _, _)
BitLenBetween(part, lo, hi) ==
  IF hi - lo <= 1
  THEN IF IsZero(part) THEN lo ELSE hi
  ELSE Apply2(LAMBDA mid, upper :
                IF IsZero(upper)
                THEN BitLenBetween(part, lo, mid)
                ELSE BitLenBetween(upper, mid, hi),
              (lo + hi) \div 2, HalfN(part, (lo + hi) \div 2 - lo))

\* 10^d < 2^(4d), so 4 * Len(n) binary digits always suffice
BitLen(n) == Apply(LAMBDA v : BitLenBetween(v, 0, 4 * Len(v)), n)

\* n of bits binary digits, bits > DBL_MANT_DIG, rounded to DBL_MANT_DIG
\* of them, ties to even: the bits dropped are a guard bit and the rest.
RoundBits(n, bits) ==
  LET e == bits - DBL_MANT_DIG
  IN  Apply(LAMBDA t :
              Apply2(LAMBDA q, sticky :
                       Apply(LAMBDA significand :
                               [overflow |->
                                  \/ bits > DBL_MAX_EXP
                                  \/ /\ bits = DBL_MAX_EXP
                                     /\ BitLen(significand) > DBL_MANT_DIG,
                                digits |-> TwiceN(significand, e)],
                             IF IsOdd(t) /\ (sticky \/ IsOdd(q))
                             THEN PlusOne(q) ELSE q),
                     StripLeadingZeros(Half(t)),
                     TwiceN(StripLeadingZeros(t), e - 1) # n),
            HalfN(n, e - 1))

\* The integer n (decimal digits, no leading zero) rounded to the nearest
\* double, ties to even: [overflow, digits of the double's value].
RoundToDouble(n) ==
  Apply2(LAMBDA v, bits :
           IF bits <= DBL_MANT_DIG
           THEN [overflow |-> FALSE, digits |-> v]
           ELSE IF bits > DBL_MAX_EXP
           THEN [overflow |-> TRUE, digits |-> <<>>]
           ELSE RoundBits(v, bits),
         n, BitLen(n))

\* std::stod on a digit-led lexeme "<int_text>" or "<int_text>.<frac_text>"
\* whose digits have the values int and frac.
stodDigits(int, frac) ==
  IF frac # <<>>
  THEN [status |-> "ok", int |-> int, frac |-> frac]
  ELSE Apply(LAMBDA r :
               IF r.overflow
               THEN [status |-> "out_of_range", int |-> <<>>, frac |-> <<>>]
               ELSE [status |-> "ok", int |-> r.digits, frac |-> <<>>],
             RoundToDouble(int))

\* std::stod on a lexeme: [status, int, frac].  status is "ok",
\* "out_of_range" (the value is beyond the largest double) or
\* "invalid_argument" (no digit to convert).
stodText(str) ==
  LET dot == find(str, ".", 0)
      int_text == IF dot = npos THEN str ELSE substr(str, 0, dot)
      frac_text == IF dot = npos THEN <<>> ELSE substrFrom(str, dot + 1)
      wellformed == /\ Len(int_text) + Len(frac_text) > 0
                    /\ \A i \in 1 .. Len(int_text) : isdigit(int_text[i])
                    /\ \A i \in 1 .. Len(frac_text) : isdigit(frac_text[i])
  IN  IF ~wellformed
      THEN [status |-> "invalid_argument", int |-> <<>>, frac |-> <<>>]
      ELSE Apply2(stodDigits, StripLeadingZeros(ToVals(int_text)),
                  StripTrailingZeros(ToVals(frac_text)))

stod(str) == Apply(stodText, str)

\* a decimal exponent printed by "g": sign and at least two digits
ExponentText(x) ==
  LET a == IF x < 0 THEN -x ELSE x
      tens == IF a >= 100 THEN <<(a \div 100), ((a \div 10) % 10)>>
              ELSE <<a \div 10>>
  IN  <<"e", IF x < 0 THEN "-" ELSE "+">> \o ToChars(tens \o <<(a % 10)>>)

\* A formatting that prints a value whose fractional part is zero as its
\* digits alone.
formatDoubleWithoutFraction(val) ==
  IF val.int = <<>> THEN <<"0">> ELSE ToChars(val.int)

\* formatDoubleForLoxLiteral: "{:.1f}" for a value whose fractional part
\* (std::modf) is zero, "{:.15g}" otherwise.
formatDoubleForLoxLiteral(val) ==
  LET int_text == IF val.int = <<>> THEN <<"0">> ELSE ToChars(val.int)
  IN  IF val.frac = <<>>
      THEN int_text \o <<".", "0">>
      ELSE LET significant == StripLeadingZeros(val.frac)
               x == IF val.int # <<>> THEN Len(val.int) - 1
                    ELSE -(Len(val.frac) - Len(significant) + 1)
           IN  IF x < -4
               THEN ToChars(<<significant[1]>>)
                    \o (IF Len(significant) > 1
                        THEN <<".">> \o ToChars(Tail(significant))
                        ELSE <<>>)
                    \o ExponentText(x)
               ELSE int_text \o <<".">> \o ToChars(val.frac)

-----------------------------------------------------------------------------
(* ScanContext and what a matcher leaves behind.                           *)
(*                                                                         *)
(* A ScanContext is the source view and the three cursor fields it refers  *)
(* to.  A matcher's result is whether it handled the position, the context *)
(* it leaves, and the lines it printed to stdout (out) and stderr (err).   *)

\* a printed token line: "<type> <lexeme> <literal>"
Token(type, lexeme, literal) ==
  [type |-> type, lexeme |-> lexeme, literal |-> literal]

\* the text "null" printed in the literal field
null == <<"n", "u", "l", "l">>

\* a printed error line: "[line <line>] Error: <what><text>"
Error(line, what, text) == [line |-> line, what |-> what, text |-> text]

ScanContext(src_view, pos, line, err_flag, operator_trie, kws) ==
  [source_view |-> src_view, current_pos |-> pos, current_line |-> line,
   in_error_flag |-> err_flag, op_trie |-> operator_trie, keywords |-> kws]

\* ScanContext::remaining
remaining(ctx) ==
  IF ctx.current_pos >= Len(ctx.source_view) THEN <<>>
  ELSE substrFrom(ctx.source_view, ctx.current_pos)

\* ScanContext::isAtEnd
isAtEnd(ctx) == ctx.current_pos >= Len(ctx.source_view)

\* ScanContext::currentChar (callers check isAtEnd first)
currentChar(ctx) == ctx.source_view[ctx.current_pos + 1]

NotHandled(ctx) == [handled |-> FALSE, ctx |-> ctx, out |-> <<>>, err |-> <<>>]

Handled(ctx, out_lines, err_lines) ==
  [handled |-> TRUE, ctx |-> ctx, out |-> out_lines, err |-> err_lines]

-----------------------------------------------------------------------------
(* The matchers of the Scanner class (scanner/Scanner.cpp).                *)

\* A newline matcher that does not count the line.
scanNewlineUncounted(ctx) ==
  IF ~isAtEnd(ctx) /\ currentChar(ctx) = NL
  THEN Handled([ctx EXCEPT !.current_pos = @ + 1], <<>>, <<>>)
  ELSE NotHandled(ctx)

scanNewline(ctx) ==
  IF ~isAtEnd(ctx) /\ currentChar(ctx) = NL
  THEN Handled([ctx EXCEPT !.current_line = @ + 1, !.current_pos = @ + 1],
               <<>>, <<>>)
  ELSE NotHandled(ctx)

\* A whitespace matcher that clears the error flag.
scanWhitespaceResetting(ctx) ==
  IF ~isAtEnd(ctx) /\ currentChar(ctx) # NL /\ isspace(currentChar(ctx))
  THEN Handled([ctx EXCEPT !.current_pos = @ + 1, !.in_error_flag = FALSE],
               <<>>, <<>>)
  ELSE NotHandled(ctx)

scanWhitespace(ctx) ==
  IF ~isAtEnd(ctx) /\ currentChar(ctx) # NL /\ isspace(currentChar(ctx))
  THEN Handled([ctx EXCEPT !.current_pos = @ + 1], <<>>, <<>>)
  ELSE NotHandled(ctx)

\* A comment matcher that steps one past the end of a comment that no
\* newline ends.
scanCommentPastEnd(ctx) ==
  LET remaining_view == remaining(ctx)
  IN  IF starts_with(remaining_view, <<"/", "/">>)
      THEN LET newline_pos == find(remaining_view, NL, 0)
           IN  IF newline_pos = npos
               THEN Handled([ctx EXCEPT !.current_pos =
                                          @ + Len(remaining_view) + 1],
                            <<>>, <<>>)
               ELSE Handled([ctx EXCEPT !.current_pos = @ + newline_pos],
                            <<>>, <<>>)
      ELSE NotHandled(ctx)

\* A comment matcher that takes the newline that ends the comment.
scanCommentThroughNewline(ctx) ==
  LET remaining_view == remaining(ctx)
  IN  IF starts_with(remaining_view, <<"/", "/">>)
      THEN LET newline_pos == find(remaining_view, NL, 0)
           IN  IF newline_pos = npos
               THEN Handled([ctx EXCEPT !.current_pos =
                                          @ + Len(remaining_view)],
                            <<>>, <<>>)
               ELSE Handled([ctx EXCEPT !.current_pos = @ + newline_pos + 1],
                            <<>>, <<>>)
      ELSE NotHandled(ctx)

scanComment(ctx) ==
  LET remaining_view == remaining(ctx)
  IN  IF starts_with(remaining_view, <<"/", "/">>)
      THEN LET newline_pos == find(remaining_view, NL, 0)
           IN  IF newline_pos = npos
               THEN Handled([ctx EXCEPT !.current_pos =
                                          @ + Len(remaining_view)],
                            <<>>, <<>>)
               ELSE Handled([ctx EXCEPT !.current_pos = @ + newline_pos],
                            <<>>, <<>>)
      ELSE NotHandled(ctx)

\* The while loop of scanStringLiteral over remaining_after_quote:
\* [ctx, literal_value, string_terminated] when the loop is left.
RECURSIVE stringSearch(_, _, _, _)
stringSearch(ctx, remaining_after_quote, current_search_offset, literal_value) ==
  IF ~(current_search_offset < Len(remaining_after_quote))
  THEN [ctx |-> ctx, literal_value |-> literal_value,
        string_terminated |-> FALSE]
  ELSE
    LET next_quote_pos ==
          find(remaining_after_quote, QUOTE, current_search_offset)
        next_newline_pos ==
          find(remaining_after_quote, NL, current_search_offset)
        quote_found_first ==
          /\ next_quote_pos # npos
          /\ (next_newline_pos = npos \/ next_quote_pos < next_newline_pos)
    IN  IF next_quote_pos = npos /\ next_newline_pos = npos
        THEN [ctx |-> [ctx EXCEPT !.current_pos =
                         @ + (Len(remaining_after_quote)
                              - current_search_offset)],
              literal_value |->
                literal_value
                \o substrFrom(remaining_after_quote, current_search_offset),
              string_terminated |-> FALSE]
        ELSE IF quote_found_first
        THEN [ctx |-> [ctx EXCEPT !.current_pos =
                         @ + (next_quote_pos - current_search_offset + 1)],
              literal_value |->
                literal_value
                \o substr(remaining_after_quote, current_search_offset,
                          next_quote_pos - current_search_offset),
              string_terminated |-> TRUE]
        ELSE stringSearch(
               [ctx EXCEPT !.current_pos =
                             @ + (next_newline_pos - current_search_offset + 1),
                           !.current_line = @ + 1],
               remaining_after_quote,
               next_newline_pos + 1,
               literal_value
               \o substr(remaining_after_quote, current_search_offset,
                         next_newline_pos - current_search_offset + 1))

\* A string matcher that tags the unterminated-string error with the line
\* the cursor has reached.
scanStringLiteralFinalLine(ctx) ==
  IF isAtEnd(ctx) \/ currentChar(ctx) # QUOTE
  THEN NotHandled(ctx)
  ELSE
    LET opened == [ctx EXCEPT !.current_pos = @ + 1]
    IN  Apply(LAMBDA left :
                IF left.string_terminated
                THEN Handled(left.ctx,
                             <<Token("STRING",
                                     substr(ctx.source_view, ctx.current_pos,
                                            left.ctx.current_pos
                                            - ctx.current_pos),
                                     left.literal_value)>>,
                             <<>>)
                ELSE Handled([left.ctx EXCEPT !.in_error_flag = TRUE], <<>>,
                             <<Error(left.ctx.current_line,
                                     "Unterminated string.", <<>>)>>),
              stringSearch(opened, remaining(opened), 0, <<>>))

\* A string matcher that leaves the closing quote out of the lexeme.
scanStringLiteralOpenLexeme(ctx) ==
  IF isAtEnd(ctx) \/ currentChar(ctx) # QUOTE
  THEN NotHandled(ctx)
  ELSE
    LET opened == [ctx EXCEPT !.current_pos = @ + 1]
    IN  Apply(LAMBDA left :
                IF left.string_terminated
                THEN Handled(left.ctx,
                             <<Token("STRING",
                                     substr(ctx.source_view, ctx.current_pos,
                                            left.ctx.current_pos
                                            - ctx.current_pos - 1),
                                     left.literal_value)>>,
                             <<>>)
                ELSE Handled([left.ctx EXCEPT !.in_error_flag = TRUE], <<>>,
                             <<Error(ctx.current_line,
                                     "Unterminated string.", <<>>)>>),
              stringSearch(opened, remaining(opened), 0, <<>>))

\* A string matcher that, finding no closing quote, takes the opening quote
\* alone.
scanStringLiteralReopened(ctx) ==
  IF isAtEnd(ctx) \/ currentChar(ctx) # QUOTE
  THEN NotHandled(ctx)
  ELSE
    LET opened == [ctx EXCEPT !.current_pos = @ + 1]
    IN  Apply(LAMBDA left :
                IF left.string_terminated
                THEN Handled(left.ctx,
                             <<Token("STRING",
                                     substr(ctx.source_view, ctx.current_pos,
                                            left.ctx.current_pos
                                            - ctx.current_pos),
                                     left.literal_value)>>,
                             <<>>)
                ELSE Handled([opened EXCEPT !.in_error_flag = TRUE], <<>>,
                             <<Error(ctx.current_line,
                                     "Unterminated string.", <<>>)>>),
              stringSearch(opened, remaining(opened), 0, <<>>))

scanStringLiteral(ctx) ==
  IF isAtEnd(ctx) \/ currentChar(ctx) # QUOTE
  THEN NotHandled(ctx)
  ELSE
    LET string_start_original_pos_in_source == ctx.current_pos
        string_start_line == ctx.current_line
        opened == [ctx EXCEPT !.current_pos = @ + 1]
    IN  Apply(LAMBDA left :
                IF left.string_terminated
                THEN Handled(left.ctx,
                             <<Token("STRING",
                                     substr(ctx.source_view,
                                            string_start_original_pos_in_source,
                                            left.ctx.current_pos
                                            - string_start_original_pos_in_source),
                                     left.literal_value)>>,
                             <<>>)
                ELSE Handled([left.ctx EXCEPT !.in_error_flag = TRUE], <<>>,
                             <<Error(string_start_line,
                                     "Unterminated string.", <<>>)>>),
              stringSearch(opened, remaining(opened), 0, <<>>))

\* What scanNumberLiteral does with its lexeme once the cursor is past it
\* (the try block of Scanner::scanNumberLiteral).
\* A conversion that reports a number it cannot convert and then declines
\* the position.
convertNumberDeclining(ctx, lexeme) ==
  Apply(LAMBDA literal_double_val :
          IF literal_double_val.status # "ok"
          THEN [handled |-> FALSE,
                ctx |-> [ctx EXCEPT !.in_error_flag = TRUE],
                out |-> <<>>,
                err |-> <<Error(ctx.current_line,
                                "Number literal out of range: ", lexeme)>>]
          ELSE Handled(ctx,
                       <<Token("NUMBER", lexeme,
                               formatDoubleForLoxLiteral(
                                 literal_double_val))>>,
                       <<>>),
        stod(lexeme))

convertNumber(ctx, lexeme) ==
  Apply(LAMBDA literal_double_val :
          IF literal_double_val.status = "out_of_range"
          THEN Handled([ctx EXCEPT !.in_error_flag = TRUE], <<>>,
                       <<Error(ctx.current_line,
                               "Number literal out of range: ", lexeme)>>)
          ELSE IF literal_double_val.status = "invalid_argument"
          THEN Handled([ctx EXCEPT !.in_error_flag = TRUE], <<>>,
                       <<Error(ctx.current_line,
                               "Invalid number format (stod failed): ",
                               lexeme)>>)
          ELSE Handled(ctx,
                       <<Token("NUMBER", lexeme,
                               formatDoubleForLoxLiteral(
                                 literal_double_val))>>,
                       <<>>),
        stod(lexeme))

\* A number matcher that takes a '.' after the integer part whatever
\* follows it.
scanNumberLiteralWithDot(ctx) ==
  IF isAtEnd(ctx) \/ ~isdigit(currentChar(ctx))
  THEN NotHandled(ctx)
  ELSE
    LET after_int == [ctx EXCEPT !.current_pos =
                        @ + DistanceToNot(remaining(ctx), Digit)]
        has_dot == ~isAtEnd(after_int) /\ currentChar(after_int) = "."
        after_dot == [after_int EXCEPT !.current_pos = @ + 1]
        after_frac ==
          IF has_dot
          THEN [after_dot EXCEPT !.current_pos =
                  @ + DistanceToNot(remaining(after_dot), Digit)]
          ELSE after_int
        lexeme == substr(ctx.source_view, ctx.current_pos,
                         after_frac.current_pos - ctx.current_pos)
    IN  Apply2(convertNumber, after_frac, lexeme)

\* A number matcher that also takes a '.' that a digit follows as the
\* start of a number.
scanNumberLiteralLeadingDot(ctx) ==
  IF \/ isAtEnd(ctx)
     \/ /\ ~isdigit(currentChar(ctx))
        /\ ~(/\ currentChar(ctx) = "."
             /\ ctx.current_pos + 1 < Len(ctx.source_view)
             /\ isdigit(ctx.source_view[ctx.current_pos + 2]))
  THEN NotHandled(ctx)
  ELSE
    LET start_pos_in_source == ctx.current_pos
        after_int == [ctx EXCEPT !.current_pos =
                        @ + DistanceToNot(remaining(ctx), Digit)]
        has_fraction ==
          /\ ~isAtEnd(after_int)
          /\ currentChar(after_int) = "."
          /\ after_int.current_pos + 1 < Len(ctx.source_view)
          /\ isdigit(ctx.source_view[after_int.current_pos + 2])
        after_dot == [after_int EXCEPT !.current_pos = @ + 1]
        after_frac ==
          IF has_fraction
          THEN [after_dot EXCEPT !.current_pos =
                  @ + DistanceToNot(remaining(after_dot), Digit)]
          ELSE after_int
        lexeme == substr(ctx.source_view, start_pos_in_source,
                         after_frac.current_pos - start_pos_in_source)
    IN  Apply2(convertNumber, after_frac, lexeme)

scanNumberLiteral(ctx) ==
  IF isAtEnd(ctx) \/ ~isdigit(currentChar(ctx))
  THEN NotHandled(ctx)
  ELSE
    LET start_pos_in_source == ctx.current_pos
        after_int == [ctx EXCEPT !.current_pos =
                        @ + DistanceToNot(remaining(ctx), Digit)]
        has_fraction ==
          /\ ~isAtEnd(after_int)
          /\ currentChar(after_int) = "."
          /\ after_int.current_pos + 1 < Len(ctx.source_view)
          /\ isdigit(ctx.source_view[after_int.current_pos + 2])
        after_dot == [after_int EXCEPT !.current_pos = @ + 1]
        after_frac ==
          IF has_fraction
          THEN [after_dot EXCEPT !.current_pos =
                  @ + DistanceToNot(remaining(after_dot), Digit)]
          ELSE after_int
        lexeme == substr(ctx.source_view, start_pos_in_source,
                         after_frac.current_pos - start_pos_in_source)
    IN  Apply2(convertNumber, after_frac, lexeme)

\* An identifier matcher that has taken the character it declines.
scanIdentifierOrKeywordConsuming(ctx) ==
  IF isAtEnd(ctx)
  THEN NotHandled(ctx)
  ELSE IF ~isIdentifierStartChar(currentChar(ctx))
  THEN NotHandled([ctx EXCEPT !.current_pos = @ + 1])
  ELSE
    LET start_pos_in_source == ctx.current_pos
        first == [ctx EXCEPT !.current_pos = @ + 1]
        last == [first EXCEPT !.current_pos =
                   @ + DistanceToNot(remaining(first), IdentifierPartChars)]
        lexeme == substr(ctx.source_view, start_pos_in_source,
                         last.current_pos - start_pos_in_source)
        found == keywordsFind(ctx.keywords, lexeme)
        token_type_str == IF found # nullopt THEN found ELSE "IDENTIFIER"
    IN  Handled(last, <<Token(token_type_str, lexeme, null)>>, <<>>)

scanIdentifierOrKeyword(ctx) ==
  IF isAtEnd(ctx) \/ ~isIdentifierStartChar(currentChar(ctx))
  THEN NotHandled(ctx)
  ELSE
    LET start_pos_in_source == ctx.current_pos
        first == [ctx EXCEPT !.current_pos = @ + 1]
        last == [first EXCEPT !.current_pos =
                   @ + DistanceToNot(remaining(first), IdentifierPartChars)]
        lexeme == substr(ctx.source_view, start_pos_in_source,
                         last.current_pos - start_pos_in_source)
        found == keywordsFind(ctx.keywords, lexeme)
        token_type_str == IF found # nullopt THEN found ELSE "IDENTIFIER"
    IN  Handled(last, <<Token(token_type_str, lexeme, null)>>, <<>>)

\* An operator matcher that registers the lexeme it matched once more.
scanOperatorRegistering(ctx) ==
  IF isAtEnd(ctx)
  THEN NotHandled(ctx)
  ELSE
    LET match_result == searchLongestMatch(ctx.op_trie, remaining(ctx))
        matched_length == match_result[1]
        matched_type_opt == match_result[2]
        lexeme == substr(remaining(ctx), 0, matched_length)
    IN  IF matched_length > 0 /\ matched_type_opt # nullopt
        THEN Handled([ctx EXCEPT !.current_pos = @ + matched_length,
                                 !.op_trie = insert(@, lexeme, "OPERATOR")],
                     <<Token(matched_type_opt, lexeme, null)>>,
                     <<>>)
        ELSE NotHandled(ctx)

\* scanOperator printing only the first character of the operator it takes
scanOperatorFirstChar(ctx) ==
  IF isAtEnd(ctx)
  THEN NotHandled(ctx)
  ELSE
    LET match_result == searchLongestMatch(ctx.op_trie, remaining(ctx))
        matched_length == match_result[1]
        matched_type_opt == match_result[2]
    IN  IF matched_length > 0 /\ matched_type_opt # nullopt
        THEN Handled([ctx EXCEPT !.current_pos = @ + matched_length],
                     <<Token(matched_type_opt,
                             substr(remaining(ctx), 0, 1),
                             null)>>,
                     <<>>)
        ELSE NotHandled(ctx)

scanOperator(ctx) ==
  IF isAtEnd(ctx)
  THEN NotHandled(ctx)
  ELSE
    LET match_result == searchLongestMatch(ctx.op_trie, remaining(ctx))
        matched_length == match_result[1]
        matched_type_opt == match_result[2]
    IN  IF matched_length > 0 /\ matched_type_opt # nullopt
        THEN Handled([ctx EXCEPT !.current_pos = @ + matched_length],
                     <<Token(matched_type_opt,
                             substr(remaining(ctx), 0, matched_length),
                             null)>>,
                     <<>>)
        ELSE NotHandled(ctx)

-----------------------------------------------------------------------------
(* The matchers of main.cpp that scan character by character.  Its         *)
(* scanNewline, scanWhitespace and scanOperator have the text of the       *)
(* Scanner's, as has the conversion of a number; its literal is printed    *)
(* through a buffer of sizeof_buffer bytes.                                *)

\* while (!ctx.isAtEnd() && ctx.currentChar() != '\n') ctx.current_pos++;
RECURSIVE main_skipToNewline(_)
main_skipToNewline(ctx) ==
  IF ~isAtEnd(ctx) /\ currentChar(ctx) # NL
  THEN Apply(main_skipToNewline, [ctx EXCEPT !.current_pos = @ + 1])
  ELSE ctx

\* while (!ctx.isAtEnd() && std::isdigit(ctx.currentChar())) ctx.current_pos++;
\* (loop[pos] is the offset the loop ends at when it is entered at pos)
main_skipDigits(ctx) ==
  LET loop[pos \in 0 .. Len(ctx.source_view)] ==
        IF ~isAtEnd([ctx EXCEPT !.current_pos = pos])
           /\ isdigit(currentChar([ctx EXCEPT !.current_pos = pos]))
        THEN loop[pos + 1]
        ELSE pos
  IN  [ctx EXCEPT !.current_pos = loop[@]]

\* while (!ctx.isAtEnd() && isIdentifierPartChar(ctx.currentChar()))
\*   ctx.current_pos++;
RECURSIVE main_skipIdentifierPart(_)
main_skipIdentifierPart(ctx) ==
  IF ~isAtEnd(ctx) /\ isIdentifierPartChar(currentChar(ctx))
  THEN Apply(main_skipIdentifierPart, [ctx EXCEPT !.current_pos = @ + 1])
  ELSE ctx

main_scanComment(ctx) ==
  LET rem == remaining(ctx)
  IN  IF Len(rem) >= 2 /\ rem[1] = "/" /\ rem[2] = "/"
      THEN Handled(main_skipToNewline(ctx), <<>>, <<>>)
      ELSE NotHandled(ctx)

\* The while loop of main's scanStringLiteral:
\* [ctx, literal_value, string_terminated] when the loop is left.
RECURSIVE main_stringLoop(_, _)
main_stringLoop(ctx, literal_value) ==
  IF isAtEnd(ctx)
  THEN [ctx |-> ctx, literal_value |-> literal_value,
        string_terminated |-> FALSE]
  ELSE LET char_in_string == currentChar(ctx)
       IN  IF char_in_string = QUOTE
           THEN [ctx |-> [ctx EXCEPT !.current_pos = @ + 1],
                 literal_value |-> literal_value,
                 string_terminated |-> TRUE]
           ELSE Apply2(main_stringLoop,
                       [ctx EXCEPT !.current_line =
                                     IF char_in_string = NL THEN @ + 1 ELSE @,
                                   !.current_pos = @ + 1],
                       Append(literal_value, char_in_string))

main_scanStringLiteral(ctx) ==
  IF ~isAtEnd(ctx) /\ currentChar(ctx) = QUOTE
  THEN
    LET string_start_original_pos == ctx.current_pos
        string_start_line == ctx.current_line
    IN  Apply(LAMBDA left :
                IF left.string_terminated
                THEN Handled(left.ctx,
                             <<Token("STRING",
                                     substr(ctx.source_view,
                                            string_start_original_pos,
                                            left.ctx.current_pos
                                            - string_start_original_pos),
                                     left.literal_value)>>,
                             <<>>)
                ELSE Handled([left.ctx EXCEPT !.in_error_flag = TRUE], <<>>,
                             <<Error(string_start_line,
                                     "Unterminated string.", <<>>)>>),
              main_stringLoop([ctx EXCEPT !.current_pos = @ + 1], <<>>))
  ELSE NotHandled(ctx)

\* char buffer[128] of main's formatDoubleForLoxLiteral
sizeof_buffer == 128

\* main's formatDoubleForLoxLiteral: snprintf with "%.1f" or "%.15g" into
\* buffer, which keeps at most sizeof(buffer) - 1 characters of the
\* rendering before the terminating zero.
main_formatDoubleForLoxLiteral(val) ==
  substr(formatDoubleForLoxLiteral(val), 0, sizeof_buffer - 1)

\* the try block of main's scanNumberLiteral and the line it prints
main_convertNumber(ctx, lexeme) ==
  Apply(LAMBDA literal_double_val :
          IF literal_double_val.status = "out_of_range"
          THEN Handled([ctx EXCEPT !.in_error_flag = TRUE], <<>>,
                       <<Error(ctx.current_line,
                               "Number literal out of range: ", lexeme)>>)
          ELSE IF literal_double_val.status = "invalid_argument"
          THEN Handled([ctx EXCEPT !.in_error_flag = TRUE], <<>>,
                       <<Error(ctx.current_line,
                               "Invalid number format (stod failed): ",
                               lexeme)>>)
          ELSE Handled(ctx,
                       <<Token("NUMBER", lexeme,
                               main_formatDoubleForLoxLiteral(
                                 literal_double_val))>>,
                       <<>>),
        stod(lexeme))

main_scanNumberLiteral(ctx) ==
  IF isAtEnd(ctx) \/ ~isdigit(currentChar(ctx))
  THEN NotHandled(ctx)
  ELSE
    LET start_pos == ctx.current_pos
        after_int == main_skipDigits(ctx)
        has_fraction ==
          /\ ~isAtEnd(after_int)
          /\ currentChar(after_int) = "."
          /\ after_int.current_pos + 1 < Len(ctx.source_view)
          /\ isdigit(ctx.source_view[after_int.current_pos + 2])
        after_frac ==
          IF has_fraction
          THEN main_skipDigits([after_int EXCEPT !.current_pos = @ + 1])
          ELSE after_int
        lexeme == substr(ctx.source_view, start_pos,
                         after_frac.current_pos - start_pos)
    IN  Apply2(main_convertNumber, after_frac, lexeme)

main_scanIdentifierOrKeyword(ctx) ==
  IF isAtEnd(ctx) \/ ~isIdentifierStartChar(currentChar(ctx))
  THEN NotHandled(ctx)
  ELSE
    LET start_pos == ctx.current_pos
        last == main_skipIdentifierPart([ctx EXCEPT !.current_pos = @ + 1])
        lexeme == substr(ctx.source_view, start_pos,
                         last.current_pos - start_pos)
        found == keywordsFind(ctx.keywords, lexeme)
        token_type == IF found # nullopt THEN found ELSE "IDENTIFIER"
    IN  Handled(last, <<Token(token_type, lexeme, null)>>, <<>>)

-----------------------------------------------------------------------------
(* The driver: one iteration of the while loop.                            *)

\* the number of matchers in Scanner::matchers_ and in main's matchers
NumMatchers == 7

\* A list of matchers with the operator matcher before the comment matcher.
matchers_OperatorFirst(i, ctx) ==
  CASE i = 1 -> scanNewline(ctx)
    [] i = 2 -> scanWhitespace(ctx)
    [] i = 3 -> scanOperator(ctx)
    [] i = 4 -> scanStringLiteral(ctx)
    [] i = 5 -> scanNumberLiteral(ctx)
    [] i = 6 -> scanIdentifierOrKeyword(ctx)
    [] i = 7 -> scanComment(ctx)

\* Scanner::matchers_[i - 1], in the order of the constructor
matchers_(i, ctx) ==
  CASE i = 1 -> scanNewline(ctx)
    [] i = 2 -> scanWhitespace(ctx)
    [] i = 3 -> scanComment(ctx)
    [] i = 4 -> scanStringLiteral(ctx)
    [] i = 5 -> scanNumberLiteral(ctx)
    [] i = 6 -> scanIdentifierOrKeyword(ctx)
    [] i = 7 -> scanOperator(ctx)

\* main's matchers[i - 1]
main_matchers(i, ctx) ==
  CASE i = 1 -> scanNewline(ctx)
    [] i = 2 -> scanWhitespace(ctx)
    [] i = 3 -> main_scanComment(ctx)
    [] i = 4 -> main_scanStringLiteral(ctx)
    [] i = 5 -> main_scanNumberLiteral(ctx)
    [] i = 6 -> main_scanIdentifierOrKeyword(ctx)
    [] i = 7 -> scanOperator(ctx)

callMatcher(e, i, ctx) ==
  IF e = "scanner" THEN matchers_(i, ctx) ELSE main_matchers(i, ctx)

\* std::ranges::find_if over the matchers (main: the for loop with break):
\* each matcher is called on the context the ones before it left, until one
\* returns true.  matcher is the one that did, 0 for matchers_.end().
RECURSIVE findMatcher(_, _, _, _, _)
findMatcher(e, i, ctx, out_lines, err_lines) ==
  IF i > NumMatchers
  THEN [matcher |-> 0, ctx |-> ctx, out |-> out_lines, err |-> err_lines]
  ELSE Apply(LAMBDA r :
               IF r.handled
               THEN [matcher |-> i, ctx |-> r.ctx, out |-> out_lines \o r.out,
                     err |-> err_lines \o r.err]
               ELSE findMatcher(e, i + 1, r.ctx, out_lines \o r.out,
                                err_lines \o r.err),
             callMatcher(e, i, ctx))

\* A loop body that gives the scan up at a character no matcher takes: the
\* character is reported and the loop is left.
loopBodyAborting(e, ctx) ==
  Apply(LAMBDA found :
          IF found.matcher # 0
          THEN [matcher |-> found.matcher, ctx |-> found.ctx,
                out |-> found.out, err |-> found.err, break |-> FALSE]
          ELSE IF ~isAtEnd(found.ctx)
          THEN [matcher |-> 0,
                ctx |-> [found.ctx EXCEPT !.in_error_flag = TRUE],
                out |-> found.out,
                err |-> Append(found.err,
                               Error(found.ctx.current_line,
                                     "Unexpected character: ",
                                     <<currentChar(found.ctx)>>)),
                break |-> TRUE]
          ELSE [matcher |-> 0, ctx |-> found.ctx, out |-> found.out,
                err |-> found.err, break |-> TRUE],
        findMatcher(e, 1, ctx, <<>>, <<>>))

\* A loop body that reports a character no matcher takes and leaves the
\* offset where it is.
loopBodyStalled(e, ctx) ==
  Apply(LAMBDA found :
          IF found.matcher # 0
          THEN [matcher |-> found.matcher, ctx |-> found.ctx,
                out |-> found.out, err |-> found.err, break |-> FALSE]
          ELSE IF ~isAtEnd(found.ctx)
          THEN [matcher |-> 0,
                ctx |-> [found.ctx EXCEPT !.in_error_flag = TRUE],
                out |-> found.out,
                err |-> Append(found.err,
                               Error(found.ctx.current_line,
                                     "Unexpected character: ",
                                     <<currentChar(found.ctx)>>)),
                break |-> FALSE]
          ELSE [matcher |-> 0, ctx |-> found.ctx, out |-> found.out,
                err |-> found.err, break |-> TRUE],
        findMatcher(e, 1, ctx, <<>>, <<>>))

\* The body of the while loop, entered with !isAtEnd: the context, the
\* lines printed, the matcher that handled the position (0: none) and
\* whether the body left the loop by its break.
loopBody(e, ctx) ==
  Apply(LAMBDA found :
          LET matched_in_iteration == found.matcher # 0
          IN  IF matched_in_iteration
              THEN [matcher |-> found.matcher, ctx |-> found.ctx,
                    out |-> found.out, err |-> found.err, break |-> FALSE]
              ELSE IF ~isAtEnd(found.ctx)
              THEN [matcher |-> 0,
                    ctx |-> [found.ctx EXCEPT !.in_error_flag = TRUE,
                                              !.current_pos = @ + 1],
                    out |-> found.out,
                    err |-> Append(found.err,
                                   Error(found.ctx.current_line,
                                         "Unexpected character: ",
                                         <<currentChar(found.ctx)>>)),
                    break |-> FALSE]
              ELSE [matcher |-> 0, ctx |-> found.ctx, out |-> found.out,
                    err |-> found.err, break |-> TRUE],
        findMatcher(e, 1, ctx, <<>>, <<>>))

\* The while loop run from ctx until it is left: the context it leaves and
\* the lines its iterations printed after out_lines and err_lines.
RECURSIVE whileLoop(_, _, _, _)
whileLoop(e, ctx, out_lines, err_lines) ==
  IF isAtEnd(ctx)
  THEN [ctx |-> ctx, out |-> out_lines, err |-> err_lines]
  ELSE Apply(LAMBDA body :
               IF body.break
               THEN [ctx |-> body.ctx, out |-> out_lines \o body.out,
                     err |-> err_lines \o body.err]
               ELSE whileLoop(e, body.ctx, out_lines \o body.out,
                              err_lines \o body.err),
             loopBody(e, ctx))

\* the cursor of a Scanner just constructed over view, and of main when it
\* enters its loop: offset 0, line 1, no error
freshContext(view) ==
  ScanContext(view, 0, 1, FALSE, operator_trie_, keywords_map_)

-----------------------------------------------------------------------------
(* The sources scanned.                                                    *)

\* the longest text over Alphabet
MaxLen == 3
\* the longest text put before and after an operator lexeme
MaxPad == 1
\* the largest integer whose decimal rendering is scanned on its own
MaxInt == 120
\* the most newlines put before an opening quote
MaxLines == 2
\* the longest text put after an opening quote
MaxBody == 3
\* the most calls of scanAndPrintTokens on one Scanner
MaxCalls == 2

Texts(alphabet, n) ==
  UNION {{SubSeq(t, 1, k) : t \in [1 .. k -> alphabet]} : k \in 0 .. n}

Repeat(c, k) == SubSeq([i \in 1 .. k |-> c], 1, k)

Alphabet == {NL, " ", "/", QUOTE, "1", ".", "a", "=", "@"}

GeneralSources == Texts(Alphabet, MaxLen)

\* every operator lexeme between short texts
PadAlphabet == {"=", "!", " ", "#"}

OperatorSources ==
  {pre \o OperatorTable[k][1] \o post :
     k \in 1 .. Len(OperatorTable),
     pre \in Texts(PadAlphabet, MaxPad), post \in Texts(PadAlphabet, MaxPad)}

\* the decimal rendering of a natural number
RECURSIVE Rendering(_)
Rendering(n) ==
  IF n < 10 THEN <<DigitChars[n + 1]>>
  ELSE Append(Rendering(n \div 10), DigitChars[(n % 10) + 1])

\* 2^k as decimal digits
TwoTo(k) == TwiceN(<<1>>, k)

\* integers around 2^53, where the doubles stop holding every integer
LargeIntegers ==
  LET p == TwoTo(DBL_MANT_DIG)
  IN  {ToChars(Half(p)), ToChars(p), ToChars(PlusOne(p)),
       ToChars(PlusOne(PlusOne(p))), ToChars(PlusOne(PlusOne(PlusOne(p))))}

\* 2^1024, the least power of two beyond the largest double, on the
\* second line, followed by an operator and a character no matcher takes
BeyondDouble ==
  (<<NL>> \o ToChars(TwoTo(DBL_MAX_EXP))) \o <<"=", "=", "@">>

\* the exponent of the power of two scanned as a long number
LongExp == 416

\* a power of two whose "%.1f" rendering, its digits and ".0", is longer
\* than sizeof_buffer - 1 characters
LongInteger == ToChars(TwoTo(LongExp))

IntegerSources ==
  {Rendering(n) : n \in 0 .. MaxInt} \cup LargeIntegers
  \cup {BeyondDouble, LongInteger}

\* newlines, an opening quote and a short text that may close it
StringSources ==
  {Repeat(NL, k) \o <<QUOTE>> \o body :
     k \in 0 .. MaxLines, body \in Texts({"a", NL, QUOTE, "\\"}, MaxBody)}

\* the longest text put before or after a keyword
MaxAffix == 1

AffixAlphabet == {"x", "_", "1", " "}

\* "var x = 10;"
VarStatement ==
  <<"v", "a", "r", " ", "x", " ", "=", " ", "1", "0", ";">>

\* "var varx or_ Or"
KeywordLike ==
  <<"v", "a", "r", " ", "v", "a", "r", "x", " ", "o", "r", "_", " ",
    "O", "r">>

\* every keyword with a short text before it or after it
IdentifierSources ==
  {kw[1] \o post : kw \in keywords_map_,
                   post \in Texts(AffixAlphabet, MaxAffix)}
  \cup {pre \o kw[1] : kw \in keywords_map_,
                       pre \in Texts(AffixAlphabet, MaxAffix)}
  \cup {VarStatement, KeywordLike}

\* the longest text put between "//" and the end of its line
MaxComment == 2

\* a comment, alone or after "/ ", that holds a quote, a digit or a
\* character no matcher takes, and what follows it
CommentSources ==
  {pre \o <<"/", "/">> \o body \o post :
     pre \in {<<>>, <<"/", " ">>},
     body \in Texts({QUOTE, "1", "@"}, MaxComment),
     post \in {<<>>, <<NL>>, <<NL, "/">>}}

Sources ==
  GeneralSources \cup OperatorSources \cup IntegerSources \cup StringSources
  \cup IdentifierSources \cup CommentSources

-----------------------------------------------------------------------------
(* The state machine.                                                      *)

\* the ScanContext the driver holds: references to the cursor
ctx_ ==
  ScanContext(source_view, current_pos, current_line, in_error_flag,
              op_trie, keywords_map)

\* one iteration of the while loop, as recorded in steps
Step(before, body) ==
  [matcher |-> body.matcher,
   pos |-> before.current_pos, line |-> before.current_line,
   in_error |-> before.in_error_flag,
   pos_after |-> body.ctx.current_pos, line_after |-> body.ctx.current_line,
   in_error_after |-> body.ctx.in_error_flag,
   out |-> body.out, err |-> body.err]

\* a completed call, as recorded in runs: what it printed, its iterations,
\* the flag it returned (main: in_error at exit) and the cursor it left
Run(out_lines, err_lines, iterations, ctx) ==
  [out |-> out_lines, err |-> err_lines, steps |-> iterations,
   returned |-> ctx.in_error_flag, pos |-> ctx.current_pos,
   line |-> ctx.current_line]

\* the line main prints after its loop
EOF_TOKEN == Token("EOF", <<>>, null)

\* a line main prints to stderr that reports no lexical error
Diagnostic(what) == [what |-> what]

\* the command lines of main: argc from 1 to 3, the command, and whether
\* the file named can be opened
Invocations ==
  [argc : 1 .. 3, command : {"tokenize", "parse"}, readable : BOOLEAN]

\* a Scanner is given its source by its caller
NoInvocation == [argc |-> 0, command |-> "", readable |-> FALSE]

\* main gets as far as its loop
Tokenizes(inv) ==
  inv.argc >= 3 /\ inv.command = "tokenize" /\ inv.readable

\* A return after the tokenize branch that reports success whatever the
\* scan found.
ExitStatusZero(in_error) == <<0>>

\* main's return after the tokenize branch
ExitStatus(in_error) == IF in_error THEN <<65>> ELSE <<0>>

\* Scanner::Scanner(source_code) has run, or main has been started; the
\* source of a main that reads no file is empty.
Init ==
  /\ engine \in {"scanner", "main"}
  /\ invocation \in IF engine = "main" THEN Invocations ELSE {NoInvocation}
  /\ source_view \in IF engine = "main" /\ ~Tokenizes(invocation)
                     THEN {<<>>} ELSE Sources
  /\ exit_status = <<>>
  /\ op_trie = operator_trie_
  /\ keywords_map = keywords_map_
  /\ op_inserted = OperatorTable
  /\ op_result = <<>>
  /\ current_pos = 0
  /\ current_line = 1
  /\ in_error_flag = FALSE
  /\ pc = "ready"
  /\ out = <<>>
  /\ err = <<>>
  /\ steps = <<>>
  /\ runs = <<>>

\* Scanner::scanAndPrintTokens is called: the ScanContext is bound to the
\* members of the Scanner as they are.
scanAndPrintTokens ==
  /\ engine = "scanner"
  /\ pc = "ready"
  /\ Len(runs) < MaxCalls
  /\ pc' = "loop"
  /\ out' = <<>>
  /\ err' = <<>>
  /\ steps' = <<>>
  /\ UNCHANGED <<engine, source_view, current_pos, current_line,
                 in_error_flag, runs, invocation, exit_status,
                 op_trie, keywords_map, op_inserted, op_result>>

\* main, command "tokenize": the cursor is declared and the loop entered.
main_tokenize ==
  /\ engine = "main"
  /\ pc = "ready"
  /\ Tokenizes(invocation)
  /\ pc' = "loop"
  /\ current_pos' = 0
  /\ current_line' = 1
  /\ in_error_flag' = FALSE
  /\ out' = <<>>
  /\ err' = <<>>
  /\ steps' = <<>>
  /\ UNCHANGED <<engine, source_view, runs, invocation, exit_status,
                 op_trie, keywords_map, op_inserted, op_result>>

\* main returns 1 without scanning: too few arguments, a file that cannot
\* be opened, or a command other than "tokenize".
main_fail(what) ==
  /\ engine = "main"
  /\ pc = "ready"
  /\ pc' = "exited"
  /\ err' = <<Diagnostic(what)>>
  /\ exit_status' = <<1>>
  /\ UNCHANGED <<engine, source_view, current_pos, current_line,
                 in_error_flag, out, steps, runs, invocation,
                 op_trie, keywords_map, op_inserted, op_result>>

main_usage ==
  /\ invocation.argc < 3
  /\ main_fail("Usage: ./your_program tokenize <filename>")

main_unreadable ==
  /\ invocation.argc >= 3
  /\ invocation.command = "tokenize"
  /\ ~invocation.readable
  /\ main_fail("Error: Could not open file: ")

main_unknown_command ==
  /\ invocation.argc >= 3
  /\ invocation.command # "tokenize"
  /\ main_fail("Unknown command: ")

\* One iteration of the while loop in which matcher i handles the position
\* (i = 0: no matcher does, and the position is not the end).
Iterate(i) ==
  /\ ~isAtEnd(ctx_)
  /\ \E body \in {loopBody(engine, ctx_)} :
         /\ body.matcher = i
         /\ ~body.break
         /\ current_pos' = body.ctx.current_pos
         /\ current_line' = body.ctx.current_line
         /\ in_error_flag' = body.ctx.in_error_flag
         /\ op_trie' = body.ctx.op_trie
         /\ keywords_map' = body.ctx.keywords
         /\ out' = out \o body.out
         /\ err' = err \o body.err
         /\ steps' = Append(steps, Step(ctx_, body))
  /\ UNCHANGED <<engine, source_view, pc, runs, invocation, exit_status,
                 op_inserted, op_result>>

Newline == pc = "loop" /\ Iterate(1)

Whitespace == pc = "loop" /\ Iterate(2)

Comment == pc = "loop" /\ Iterate(3)

StringLiteral == pc = "loop" /\ Iterate(4)

NumberLiteral == pc = "loop" /\ Iterate(5)

IdentifierOrKeyword == pc = "loop" /\ Iterate(6)

Operator == pc = "loop" /\ Iterate(7)

UnexpectedCharacter == pc = "loop" /\ Iterate(0)

\* The loop is left: by its test, or by the break of an iteration in which
\* no matcher handled the position and the position is the end.
LoopLeft == IF isAtEnd(ctx_) THEN TRUE ELSE loopBody(engine, ctx_).break

\* the context the loop is left with, and the lines of the iteration that
\* broke out of it
LeftWith ==
  IF isAtEnd(ctx_)
  THEN [matcher |-> 0, ctx |-> ctx_, out |-> <<>>, err |-> <<>>,
        break |-> FALSE]
  ELSE loopBody(engine, ctx_)

\* Scanner::scanAndPrintTokens returns ctx.in_error_flag.
scanAndPrintTokens_return ==
  /\ engine = "scanner"
  /\ pc = "loop"
  /\ LoopLeft
  /\ \E left \in {LeftWith} :
       /\ current_pos' = left.ctx.current_pos
       /\ current_line' = left.ctx.current_line
       /\ in_error_flag' = left.ctx.in_error_flag
       /\ op_trie' = left.ctx.op_trie
       /\ keywords_map' = left.ctx.keywords
       /\ out' = out \o left.out
       /\ err' = err \o left.err
       /\ runs' = Append(runs, Run(out \o left.out, err \o left.err, steps,
                                   left.ctx))
  /\ pc' = "ready"
  /\ UNCHANGED <<engine, source_view, steps, invocation, exit_status,
                 op_inserted, op_result>>

\* An exit of main that prints no EOF line.
main_exit_silent ==
  /\ engine = "main"
  /\ pc = "loop"
  /\ LoopLeft
  /\ \E left \in {LeftWith} :
       /\ current_pos' = left.ctx.current_pos
       /\ current_line' = left.ctx.current_line
       /\ in_error_flag' = left.ctx.in_error_flag
       /\ op_trie' = left.ctx.op_trie
       /\ keywords_map' = left.ctx.keywords
       /\ out' = out \o left.out
       /\ err' = err \o left.err
       /\ runs' = Append(runs, Run(out \o left.out, err \o left.err, steps,
                                   left.ctx))
  /\ pc' = "exited"
  /\ exit_status' = ExitStatus(in_error_flag')
  /\ UNCHANGED <<engine, source_view, steps, invocation,
                 op_inserted, op_result>>

\* main prints the EOF line after its loop and exits.
main_exit ==
  /\ engine = "main"
  /\ pc = "loop"
  /\ LoopLeft
  /\ \E left \in {LeftWith} :
       /\ current_pos' = left.ctx.current_pos
       /\ current_line' = left.ctx.current_line
       /\ in_error_flag' = left.ctx.in_error_flag
       /\ op_trie' = left.ctx.op_trie
       /\ keywords_map' = left.ctx.keywords
       /\ out' = (out \o left.out) \o <<EOF_TOKEN>>
       /\ err' = err \o left.err
       /\ runs' = Append(runs, Run((out \o left.out) \o <<EOF_TOKEN>>,
                                   err \o left.err, steps, left.ctx))
  /\ pc' = "exited"
  /\ exit_status' = ExitStatus(in_error_flag')
  /\ UNCHANGED <<engine, source_view, steps, invocation,
                 op_inserted, op_result>>

Next ==
  \/ scanAndPrintTokens
  \/ main_tokenize
  \/ main_usage
  \/ main_unreadable
  \/ main_unknown_command
  \/ Newline
  \/ Whitespace
  \/ Comment
  \/ StringLiteral
  \/ NumberLiteral
  \/ IdentifierOrKeyword
  \/ Operator
  \/ UnexpectedCharacter
  \/ scanAndPrintTokens_return
  \/ main_exit

Spec == Init /\ [][Next]_vars

\* The code runs to completion: no step that can be taken is put off
\* for ever.
LiveSpec == Spec /\ WF_vars(Next)

-----------------------------------------------------------------------------
(* An OperatorTrie on its own: any insert calls, then searchLongestMatch   *)
(* on any text.                                                            *)

\* the most insert calls made on one trie
MaxInserts == 3
\* the longest text searched
MaxText == 3

TrieAlphabet == {"=", "!"}

\* the lexemes inserted: some begin others, with or without a node between
\* them that ends no token, and some have a first character that may end
\* no token
TrieLexemes ==
  {<<"=">>, <<"=", "=">>, <<"=", "=", "=">>, <<"=", "!", "=">>,
   <<"!">>, <<"!", "=">>}

TrieTypes == {"EQUAL", "BANG_EQUAL"}

TrieTexts == Texts(TrieAlphabet, MaxText)

TrieInit ==
  /\ engine = "trie"
  /\ invocation = NoInvocation
  /\ source_view = <<>>
  /\ exit_status = <<>>
  /\ op_trie = OperatorTrie
  /\ keywords_map = {}
  /\ op_inserted = <<>>
  /\ op_result = <<>>
  /\ current_pos = 0
  /\ current_line = 1
  /\ in_error_flag = FALSE
  /\ pc = "trie"
  /\ out = <<>>
  /\ err = <<>>
  /\ steps = <<>>
  /\ runs = <<>>

\* OperatorTrie::insert(lexeme, tokenType)
TrieInsert ==
  /\ pc = "trie"
  /\ Len(op_inserted) < MaxInserts
  /\ \E lexeme \in TrieLexemes, tokenType \in TrieTypes :
       /\ op_trie' = insert(op_trie, lexeme, tokenType)
       /\ op_inserted' = Append(op_inserted, <<lexeme, tokenType>>)
  /\ op_result' = <<>>
  /\ UNCHANGED <<engine, source_view, current_pos, current_line,
                 in_error_flag, pc, out, err, steps, runs, invocation,
                 exit_status, keywords_map>>

\* OperatorTrie::searchLongestMatch(text_view)
TrieSearch ==
  /\ pc = "trie"
  /\ op_result = <<>>
  /\ \E text_view \in TrieTexts :
       op_result' = <<[text_view |-> text_view,
                       found |-> searchLongestMatch(op_trie, text_view)]>>
  /\ UNCHANGED <<engine, source_view, current_pos, current_line,
                 in_error_flag, pc, out, err, steps, runs, invocation,
                 exit_status, op_trie, keywords_map, op_inserted>>

TrieNext ==
  \/ TrieInsert
  \/ TrieSearch

TrieSpec == TrieInit /\ [][TrieNext]_vars

-----------------------------------------------------------------------------
(* Properties.                                                             *)
(*                                                                         *)
(* The iterations of the call in progress are in steps; the completed      *)
(* calls are in runs.                                                      *)

Range(f) == {f[k] : k \in DOMAIN f}

\* the context an iteration was entered with
ContextOf(s) ==
  ScanContext(source_view, s.pos, s.line, s.in_error, op_trie, keywords_map)

\* the number of newline characters before offset p
NewlinesBefore(view, p) == Cardinality({i \in 1 .. p : view[i] = NL})

\* the token lines of a sequence of steps, in order
RECURSIVE TokensOf(_)
TokensOf(iterations) ==
  IF iterations = <<>> THEN <<>>
  ELSE iterations[1].out \o TokensOf(Tail(iterations))

\* the error lines of a sequence of steps, in order
RECURSIVE ErrorsOf(_)
ErrorsOf(iterations) ==
  IF iterations = <<>> THEN <<>>
  ELSE iterations[1].err \o ErrorsOf(Tail(iterations))

\* the call made first on a Scanner (main: the one run of the command):
\* the scan of the source from offset 0, line 1
FirstRun == IF runs = <<>> THEN {} ELSE {runs[1]}

\* the pairs <<a, b>> of registered operators with the lexeme of a a proper
\* prefix of the lexeme of b
PrefixPairs ==
  {ab \in (1 .. Len(OperatorTable)) \X (1 .. Len(OperatorTable)) :
     /\ Len(OperatorTable[ab[1]][1]) < Len(OperatorTable[ab[2]][1])
     /\ starts_with(OperatorTable[ab[2]][1], OperatorTable[ab[1]][1])}

\* C1 (longest match): for every pair of registered operators a, b with a a
\* proper prefix of b, an iteration entered at an offset where the source
\* goes on with b prints exactly one token, of the type of b with the lexeme
\* b, reports nothing and moves the offset by the length of b.
C1_LongestMatch ==
  \A s \in Range(steps) : \A ab \in PrefixPairs :
    LET b == OperatorTable[ab[2]]
    IN  starts_with(substrFrom(source_view, s.pos), b[1])
        => /\ s.out = <<Token(b[2], b[1], null)>>
           /\ s.err = <<>>
           /\ s.pos_after = s.pos + Len(b[1])

\* an iteration was entered before "!=", in a source that goes on after it
C1_Witness ==
  /\ \E s \in Range(steps) :
       /\ substr(source_view, s.pos, 2) = <<"!", "=">>
       /\ s.out = <<Token("BANG_EQUAL", <<"!", "=">>, null)>>
       /\ s.pos_after < Len(source_view)
  /\ PrefixPairs # {}

\* C2 (forward progress and termination): every iteration of the loop is
\* entered with offset < length and leaves the offset strictly greater and
\* at most the length, whether a matcher handled the position or the
\* character was reported; the loop is left only with offset = length; and
\* a scan does not stay in the loop forever.
C2_ForwardProgress ==
  /\ [][/\ (pc = "loop" /\ pc' = "loop")
           => /\ current_pos < Len(source_view)
              /\ current_pos' > current_pos
              /\ current_pos' <= Len(source_view)
        /\ (pc = "loop" /\ pc' # "loop")
           => current_pos' = Len(source_view)]_vars
  /\ []<>(pc # "loop")

\* a scan has left the loop at the end of the source after an iteration in
\* which a matcher handled the position and one in which none did
C2_Witness ==
  /\ pc # "loop"
  /\ current_pos = Len(source_view)
  /\ \E s \in Range(steps) : s.matcher = 0 /\ s.pos_after = s.pos + 1
  /\ \E s \in Range(steps) : s.matcher # 0 /\ s.pos_after > s.pos + 1

\* an iteration that reported a character no matcher takes, or a number
\* whose conversion failed
ReportedAndSkipped(s) ==
  \/ s.matcher = 0
  \/ s.matcher = 5 /\ s.err # <<>>

\* the token lines of a completed call without the EOF line
TokenLines(r) == SelectSeq(r.out, LAMBDA t : t.type # "EOF")

\* C3 (skip and continue): an unexpected-character or number error does not
\* end the scan.  In every completed call, an iteration that reported one
\* printed one error line and left the offset just past the character (past
\* the number lexeme); the next iteration was entered exactly there, unless
\* that is the end of the source; every later iteration printed the token
\* of the first matcher that takes its position, or, where none does, the
\* error for the character there; what the call printed is what its
\* iterations printed; and the call ended at the end of the source.
C3_SkipAndContinue ==
  \A r \in Range(runs) :
    /\ r.err # <<>>
       => /\ r.pos = Len(source_view)
          /\ r.err = ErrorsOf(r.steps)
          /\ TokenLines(r) = TokensOf(r.steps)
    /\ \A k \in DOMAIN r.steps :
         LET s == r.steps[k]
         IN  ReportedAndSkipped(s)
             => /\ Len(s.err) = 1
                /\ s.pos_after = s.pos + (IF s.matcher = 0 THEN 1
                                          ELSE Len(s.err[1].text))
                /\ IF s.pos_after < Len(source_view)
                   THEN k < Len(r.steps) /\ r.steps[k + 1].pos = s.pos_after
                   ELSE k = Len(r.steps)
                /\ \A j \in (k + 1) .. Len(r.steps) :
                     LET later == r.steps[j]
                         found == findMatcher(engine, 1, ContextOf(later),
                                              <<>>, <<>>)
                     IN  IF found.matcher # 0
                         THEN /\ later.out = found.out
                              /\ later.pos_after = found.ctx.current_pos
                         ELSE later.err =
                                <<Error(later.line, "Unexpected character: ",
                                        <<source_view[later.pos + 1]>>)>>

\* a completed call reported a number out of range, then printed a token,
\* then reported a character no matcher takes, then printed nothing more
C3_Witness ==
  \E r \in Range(runs) : \E k \in DOMAIN r.steps :
    /\ k + 2 = Len(r.steps)
    /\ r.steps[k].matcher = 5 /\ r.steps[k].err # <<>>
    /\ r.steps[k + 1].out # <<>>
    /\ r.steps[k + 2].matcher = 0
    /\ Len(r.err) = 2

\* C4 (returned flag): the boolean a call returns (main: in_error when the
\* loop is left) is true exactly if the call reported at least one error.
C4_ReturnedIffError ==
  \A r \in Range(runs) : r.returned <=> (r.err # <<>>)

\* C5 (unexpected character): an iteration entered at an offset below the
\* length where none of the seven matchers handles the position reports
\* exactly one "Unexpected character" error with the current line and the
\* character at the offset, sets the error flag, prints no token, leaves the
\* line as it is and moves the offset by exactly one.
C5_UnexpectedCharacter ==
  \A s \in Range(steps) :
    (/\ s.pos < Len(source_view)
     /\ \A i \in 1 .. NumMatchers :
          ~callMatcher(engine, i, ContextOf(s)).handled)
    => /\ s.err = <<Error(s.line, "Unexpected character: ",
                          <<source_view[s.pos + 1]>>)>>
       /\ s.out = <<>>
       /\ s.in_error_after
       /\ s.line_after = s.line
       /\ s.pos_after = s.pos + 1

\* on line 2, with the flag still false, a character no matcher takes was
\* reported
C5_Witness ==
  \E s \in Range(steps) :
    /\ s.matcher = 0
    /\ s.line = 2
    /\ ~s.in_error
    /\ s.in_error_after
    /\ s.err = <<Error(2, "Unexpected character: ", <<"@">>)>>

\* C6 (unterminated string): an iteration entered at a quote after which
\* the source holds no further quote reports "Unterminated string." with
\* the line of that opening quote (one more than the newlines before it),
\* whatever the number of newlines after the quote, each of which the line
\* counter has counted when the iteration ends; it prints no token.
C6_UnterminatedStringLine ==
  \A s \in Range(steps) :
    (/\ s.pos < Len(source_view)
     /\ source_view[s.pos + 1] = QUOTE
     /\ find(source_view, QUOTE, s.pos + 1) = npos)
    => /\ s.err = <<Error(1 + NewlinesBefore(source_view, s.pos),
                          "Unterminated string.", <<>>)>>
       /\ s.out = <<>>
       /\ s.line_after = 1 + NewlinesBefore(source_view, Len(source_view))
       /\ s.line_after > s.line => s.err[1].line # s.line_after

\* a string opened on line 3 and still open at the end of the source, on
\* line 5, was reported with line 3
C6_Witness ==
  \E s \in Range(steps) :
    /\ s.matcher = 4
    /\ s.line = 3
    /\ s.line_after = 5
    /\ s.err = <<Error(3, "Unterminated string.", <<>>)>>

\* a text between quotes: no quote and no newline in it
QuotedBody(view) ==
  IF Len(view) >= 2 /\ view[1] = QUOTE /\ view[Len(view)] = QUOTE
  THEN SubSeq(view, 2, Len(view) - 1)
  ELSE <<QUOTE>>

IsPlainBody(body) ==
  \A k \in DOMAIN body : body[k] # QUOTE /\ body[k] # NL

\* C7 (terminated string): the scan of a source that is a quote, a text s
\* with no quote and no newline in it, and a quote prints exactly one token,
\* STRING, with the whole source as lexeme and s, character for character,
\* as literal; it reports no error and leaves the line at 1.
C7_TerminatedString ==
  \A r \in FirstRun :
    IsPlainBody(QuotedBody(source_view))
    => /\ TokenLines(r) =
            <<Token("STRING", source_view, QuotedBody(source_view))>>
       /\ r.err = <<>>
       /\ ~r.returned
       /\ r.pos = Len(source_view)
       /\ r.line = 1
       /\ Len(r.steps) = 1

\* a source with a backslash between the quotes (a character like any other)
\* was scanned
C7_Witness ==
  \E r \in FirstRun :
    /\ QuotedBody(source_view) \in {<<"a", "\\", "a">>, <<"\\">>}
    /\ r.out # <<>>
    /\ r.out[1].literal = QuotedBody(source_view)

\* the decimal rendering of a natural number: digits, no leading zero
IsRendering(view) ==
  /\ view # <<>>
  /\ \A k \in DOMAIN view : isdigit(view[k])
  /\ Len(view) > 1 => view[1] # "0"

\* m <= n, for naturals given by their digits without leading zeros
RECURSIVE DigitsAtMost(_, _)
DigitsAtMost(m, n) ==
  IF Len(m) # Len(n) THEN Len(m) < Len(n)
  ELSE IF m = <<>> THEN TRUE
  ELSE IF m[1] # n[1] THEN m[1] < n[1]
  ELSE DigitsAtMost(Tail(m), Tail(n))

\* what C8 says of the scan of the rendering of an integer
OneNumberToken(r) ==
  /\ TokenLines(r) =
       <<Token("NUMBER", source_view, source_view \o <<".", "0">>)>>
  /\ r.err = <<>>
  /\ ~r.returned

C9_SecondCallSame ==
  \A i, j \in DOMAIN runs :
    /\ runs[i].out = runs[j].out
    /\ runs[i].err = runs[j].err
    /\ runs[i].returned = runs[j].returned

\* the EOF lines among the token lines of a call
EOFLines(lines) == SelectSeq(lines, LAMBDA t : t.type = "EOF")

\* C10 as stated (end marker): every completed scan ends its token lines
\* with exactly one EOF line, with empty lexeme and literal null.
C10_EveryScanEndsWithEOF ==
  \A r \in Range(runs) :
    /\ r.out # <<>>
    /\ r.out[Len(r.out)] = Token("EOF", <<>>, null)
    /\ Len(EOFLines(r.out)) = 1

\* C10, amended (end marker): every completed run of main's tokenize
\* command, with or without errors and on the empty source too, ends its
\* token lines with exactly one EOF line, with empty lexeme and literal
\* null; no EOF line is printed while the loop runs or before offset =
\* length; a call of Scanner::scanAndPrintTokens prints no EOF line.
C10_MainEndsWithEOF ==
  /\ \A r \in Range(runs) :
       IF engine = "main"
       THEN /\ r.out # <<>>
            /\ r.out[Len(r.out)] = Token("EOF", <<>>, null)
            /\ Len(EOFLines(r.out)) = 1
            /\ r.pos = Len(source_view)
       ELSE EOFLines(r.out) = <<>>
  /\ engine = "main" /\ pc = "exited" /\ Tokenizes(invocation)
     => runs # <<>> /\ out = runs[1].out
  /\ EOFLines(out) # <<>>
     => pc = "exited" /\ current_pos = Len(source_view)

\* main has exited after reporting an error and printing a token and then
\* the EOF line; and it has exited on the empty source
C10_Witness ==
  /\ engine = "main"
  /\ pc = "exited"
  /\ \/ /\ err # <<>>
        /\ Len(out) >= 2
        /\ out[Len(out)] = EOF_TOKEN
     \/ source_view = <<>> /\ out = <<EOF_TOKEN>>

\* the end of the maximal run of digits that starts at offset p
DigitRunEnd(view, p) ==
  LET others == {q \in p .. Len(view) - 1 : view[q + 1] \notin Digit}
  IN  IF others = {} THEN Len(view)
      ELSE CHOOSE q \in others : \A r \in others : q <= r

\* the end of the number lexeme that starts at offset p, a digit: the digit
\* run, and a '.' with the digit run after it if a digit follows the '.'
NumberEnd(view, p) ==
  LET int_end == DigitRunEnd(view, p)
  IN  IF /\ int_end + 1 < Len(view)
         /\ view[int_end + 1] = "."
         /\ view[int_end + 2] \in Digit
      THEN DigitRunEnd(view, int_end + 1)
      ELSE int_end

\* C11 (trailing dot): an iteration entered at a digit ends at the end of
\* the digit run when the run is not followed by a '.' and a digit, and
\* after the '.' and the maximal digit run behind it when it is; the NUMBER
\* token it prints (the error it reports, if the number is out of range)
\* has exactly the text between as lexeme.  When the digit run is followed
\* by a '.' that no digit follows, the offset is left at the '.', and the
\* next iteration prints the token DOT for it.
C11_TrailingDot ==
  \A k \in DOMAIN steps :
    LET s == steps[k]
        int_end == DigitRunEnd(source_view, s.pos)
        end == NumberEnd(source_view, s.pos)
        lexeme == SubSeq(source_view, s.pos + 1, end)
    IN  source_view[s.pos + 1] \in Digit
        => /\ s.matcher = 5
           /\ s.pos_after = end
           /\ IF s.err = <<>>
              THEN /\ Len(s.out) = 1
                   /\ s.out[1].type = "NUMBER"
                   /\ s.out[1].lexeme = lexeme
              ELSE /\ s.out = <<>>
                   /\ Len(s.err) = 1
                   /\ s.err[1].text = lexeme
           /\ (/\ end = int_end
               /\ end < Len(source_view)
               /\ source_view[end + 1] = "."
               /\ k < Len(steps))
              => /\ steps[k + 1].pos = end
                 /\ steps[k + 1].out = <<Token("DOT", <<".">>, null)>>
                 /\ steps[k + 1].pos_after = end + 1

\* "1" was printed as a number and the '.' after it, which no digit
\* follows, as DOT; the source goes on after the '.'
C11_Witness ==
  \E k \in DOMAIN steps :
    /\ k < Len(steps)
    /\ steps[k].out # <<>>
    /\ steps[k].out[1] = Token("NUMBER", <<"1">>, <<"1", ".", "0">>)
    /\ steps[k + 1].out = <<Token("DOT", <<".">>, null)>>
    /\ steps[k + 1].pos_after < Len(source_view)

\* the end of the maximal run of letters, digits and underscores that
\* starts at offset p
RECURSIVE WordEnd(_, _)
WordEnd(view, p) ==
  IF p < Len(view) /\ view[p + 1] \in Lower \cup Upper \cup Digit \cup {"_"}
  THEN WordEnd(view, p + 1)
  ELSE p

\* C12 (identifier or keyword): an iteration entered at a letter or an
\* underscore ends at the end of the maximal run of letters, digits and
\* underscores and prints exactly one token, with the run as lexeme and
\* literal null, and reports nothing; the type of the token is that of the
\* keyword if the whole run is one of the 16 reserved spellings, and
\* IDENTIFIER otherwise.
C12_IdentifierOrKeyword ==
  /\ Cardinality({kw[1] : kw \in keywords_map_}) = 16
  /\ \A s \in Range(steps) :
       LET end == WordEnd(source_view, s.pos)
           word == SubSeq(source_view, s.pos + 1, end)
       IN  source_view[s.pos + 1] \in Lower \cup Upper \cup {"_"}
           => /\ s.matcher = 6
              /\ s.pos_after = end
              /\ s.err = <<>>
              /\ Len(s.out) = 1
              /\ s.out[1].lexeme = word
              /\ s.out[1].literal = null
              /\ \A kw \in keywords_map_ :
                   s.out[1].type = kw[2] <=> word = kw[1]
              /\ s.out[1].type = "IDENTIFIER"
                 <=> word \notin {kw[1] : kw \in keywords_map_}

\* of "var varx or_ Or", "var" was printed as VAR and "varx", "or_" and
\* "Or" as identifiers
C12_Witness ==
  /\ source_view = KeywordLike
  /\ out = <<Token("VAR", <<"v", "a", "r">>, null),
             Token("IDENTIFIER", <<"v", "a", "r", "x">>, null),
             Token("IDENTIFIER", <<"o", "r", "_">>, null),
             Token("IDENTIFIER", <<"O", "r">>, null)>>

\* the matchers that handle the position an iteration was entered at, each
\* called on the context of that iteration
HandlersAt(s) ==
  {i \in 1 .. NumMatchers : callMatcher(engine, i, ContextOf(s)).handled}

\* C13 (pipeline order): of the matchers that handle the position of an
\* iteration, the first in the order newline, whitespace, comment, string,
\* number, identifier or keyword, operator is the one whose effect the
\* iteration has, and it has no other effect.  A position where the source
\* goes on with "//" is taken by the comment matcher and prints nothing; a
\* '/' that no '/' follows prints exactly one SLASH token.
C13_FirstMatchWins ==
  \A s \in Range(steps) :
    LET rest == substrFrom(source_view, s.pos)
        c == rest[1]
    IN  /\ HandlersAt(s) # {}
           => /\ s.matcher = Min(HandlersAt(s))
              /\ LET first == callMatcher(engine, s.matcher, ContextOf(s))
                 IN  /\ s.out = first.out
                     /\ s.err = first.err
                     /\ s.pos_after = first.ctx.current_pos
                     /\ s.line_after = first.ctx.current_line
                     /\ s.in_error_after = first.ctx.in_error_flag
        /\ c = NL => s.matcher = 1
        /\ c \in {" ", "\t", "\r"} => s.matcher = 2
        /\ starts_with(rest, <<"/", "/">>)
           => s.matcher = 3 /\ s.out = <<>> /\ s.err = <<>>
        /\ c = QUOTE => s.matcher = 4
        /\ c \in Digit => s.matcher = 5
        /\ c \in Lower \cup Upper \cup {"_"} => s.matcher = 6
        /\ c = "/" /\ ~starts_with(rest, <<"/", "/">>)
           => /\ s.matcher = 7
              /\ s.out = <<Token("SLASH", <<"/">>, null)>>
              /\ s.pos_after = s.pos + 1

\* a '/' before a blank was printed as SLASH, the "//" after the blank was
\* taken as a comment that printed nothing, and the '/' on the next line was
\* printed as SLASH
C13_Witness ==
  /\ Len(steps) = 5
  /\ steps[1].out = <<Token("SLASH", <<"/">>, null)>>
  /\ steps[3].matcher = 3
  /\ steps[3].pos_after > steps[3].pos + 2
  /\ steps[4].matcher = 1
  /\ out = <<Token("SLASH", <<"/">>, null), Token("SLASH", <<"/">>, null)>>

\* C14 (exit status): main returns 65 exactly if its scan reported at
\* least one lexical error, 0 exactly if its scan was completed and reported
\* none, and 1 exactly if it was started with fewer than two arguments, with
\* a command other than tokenize or with a file that cannot be opened; in
\* that case no scan runs and no token line is printed.
C14_ExitStatus ==
  engine = "main"
  => LET failed == \/ invocation.argc < 3
                   \/ invocation.command # "tokenize"
                   \/ ~invocation.readable
         scanned == runs # <<>>
     IN  /\ exit_status \in {<<>>, <<0>>, <<1>>, <<65>>}
         /\ exit_status # <<>> <=> pc = "exited"
         /\ exit_status = <<65>>
            <=> pc = "exited" /\ scanned /\ runs[1].err # <<>>
         /\ exit_status = <<0>>
            <=> pc = "exited" /\ scanned /\ runs[1].err = <<>>
         /\ exit_status = <<1>> <=> pc = "exited" /\ failed
         /\ failed => ~scanned /\ steps = <<>> /\ out = <<>>

\* main has returned 65 after a scan that reported an error after printing
\* a token
C14_Witness ==
  /\ engine = "main"
  /\ exit_status = <<65>>
  /\ Len(out) >= 2
  /\ \E k \in DOMAIN steps :
       steps[k].err # <<>> /\ \E j \in 1 .. k - 1 : steps[j].out # <<>>

\* C15 (cursor bounds): in every state 0 <= offset <= length; every
\* iteration is entered below the length and leaves the offset greater
\* and at most the length; and when the loop has been left, offset = length.
C15_CursorBounds ==
  /\ current_pos \in 0 .. Len(source_view)
  /\ \A s \in Range(steps) :
       /\ s.pos \in 0 .. Len(source_view) - 1
       /\ s.pos_after \in s.pos + 1 .. Len(source_view)
  /\ \A r \in Range(runs) : r.pos = Len(source_view)
  /\ runs # <<>> /\ pc # "loop" => current_pos = Len(source_view)

\* the loop has been left after an iteration that took three characters or
\* more, up to the end of the source
C15_Witness ==
  /\ runs # <<>>
  /\ pc # "loop"
  /\ current_pos = Len(source_view)
  /\ \E s \in Range(steps) :
       s.pos_after = Len(source_view) /\ s.pos_after >= s.pos + 3

\* the number of newline characters at the offsets p .. q - 1
NewlinesBetween(view, p, q) ==
  NewlinesBefore(view, q) - NewlinesBefore(view, p)

\* C16 (line counter): in every state the line is 1 plus the number of
\* newline characters before the offset; an iteration adds to the line the
\* number of newline characters it consumed, and only the newline matcher
\* and the string matcher consume any.
C16_LineCounter ==
  /\ current_line = 1 + NewlinesBefore(source_view, current_pos)
  /\ \A s \in Range(steps) :
       /\ s.line = 1 + NewlinesBefore(source_view, s.pos)
       /\ s.line_after
            = s.line + NewlinesBetween(source_view, s.pos, s.pos_after)
       /\ s.matcher \notin {1, 4} => s.line_after = s.line

\* the line was counted up by the newline matcher and, by two at once,
\* by the string matcher
C16_Witness ==
  /\ \E s \in Range(steps) : s.matcher = 1 /\ s.line_after = s.line + 1
  /\ \E s \in Range(steps) : s.matcher = 4 /\ s.line_after = s.line + 2
  /\ current_line >= 4

\* C17 (error flag): the flag is false at the start; a step that finds it
\* true leaves it true; and no iteration entered with the flag true has
\* left it false.
C17_ErrorFlagMonotone ==
  /\ in_error_flag = FALSE
  /\ [][in_error_flag => in_error_flag']_vars
  /\ [](\A s \in Range(steps) : s.in_error => s.in_error_after)

\* the flag was set by the first iteration and is still true two
\* iterations later, the last of which printed a token
C17_Witness ==
  /\ Len(steps) >= 3
  /\ ~steps[1].in_error
  /\ steps[1].in_error_after
  /\ steps[Len(steps)].out # <<>>
  /\ in_error_flag

\* C18 (unterminated string): an iteration entered at a quote after which
\* the source holds no further quote is handled by the string matcher,
\* which prints no token, reports one error, sets the flag and moves the
\* offset to the end of the source; no iteration follows it.
C18_UnterminatedStringConsumed ==
  \A k \in DOMAIN steps :
    LET s == steps[k]
    IN  (/\ source_view[s.pos + 1] = QUOTE
         /\ find(source_view, QUOTE, s.pos + 1) = npos)
        => /\ s.matcher = 4
           /\ s.out = <<>>
           /\ Len(s.err) = 1
           /\ s.err[1].what = "Unterminated string."
           /\ s.in_error_after
           /\ s.pos_after = Len(source_view)
           /\ k = Len(steps)
           /\ \A r \in Range(runs) :
                r.steps = steps => r.pos = Len(source_view)

\* a call has ended with an unterminated string of three characters or more
\* after its quote, with nothing printed and one error
C18_Witness ==
  /\ pc # "loop"
  /\ steps # <<>>
  /\ steps[Len(steps)].matcher = 4
  /\ steps[Len(steps)].pos_after >= steps[Len(steps)].pos + 4
  /\ out \in {<<>>, <<EOF_TOKEN>>}
  /\ Len(err) = 1
  /\ err[1].what = "Unterminated string."

\* the first offset at or after p that holds a newline, or the length
RECURSIVE LineEnd(_, _)
LineEnd(view, p) ==
  IF p < Len(view) /\ view[p + 1] # NL THEN LineEnd(view, p + 1) ELSE p

\* C19 (line comment): an iteration entered where the source goes on with
\* "//" is handled by the comment matcher; it leaves the offset at the next
\* newline, or at the end of the source if there is none, prints no token
\* and no error, and leaves the line and the flag as they are.  If a
\* newline ends the comment, the next iteration is entered at it and is the
\* newline matcher's.
C19_LineComment ==
  \A k \in DOMAIN steps :
    LET s == steps[k]
    IN  starts_with(substrFrom(source_view, s.pos), <<"/", "/">>)
        => /\ s.matcher = 3
           /\ s.pos_after = LineEnd(source_view, s.pos)
           /\ s.out = <<>>
           /\ s.err = <<>>
           /\ s.line_after = s.line
           /\ s.in_error_after = s.in_error
           /\ IF s.pos_after = Len(source_view)
              THEN k = Len(steps)
              ELSE k < Len(steps)
                   => /\ steps[k + 1].pos = s.pos_after
                      /\ steps[k + 1].matcher = 1
                      /\ steps[k + 1].pos_after = s.pos_after + 1

\* a comment that holds a quote and a character no matcher takes was
\* skipped, then its newline, and the '/' on the next line was printed
C19_Witness ==
  /\ source_view = <<"/", "/", QUOTE, "@", NL, "/">>
  /\ Len(steps) = 3
  /\ steps[1].pos_after = 4
  /\ steps[2].matcher = 1
  /\ out = <<Token("SLASH", <<"/">>, null)>>
  /\ err = <<>>

\* the insert calls whose lexeme the text begins with
PrefixInserts(inserted, text) ==
  {k \in DOMAIN inserted :
     /\ Len(inserted[k][1]) <= Len(text)
     /\ SubSeq(text, 1, Len(inserted[k][1])) = inserted[k][1]}

\* the longest inserted lexeme the text begins with and the type it was
\* last inserted with; <<0, nullopt>> if the text begins with none
ReferenceMatch(inserted, text) ==
  LET prefixes == PrefixInserts(inserted, text)
  IN  IF prefixes = {} THEN <<0, nullopt>>
      ELSE LET longest == CHOOSE k \in prefixes :
                            /\ \A j \in prefixes :
                                 Len(inserted[j][1]) <= Len(inserted[k][1])
                            /\ \A j \in prefixes :
                                 inserted[j][1] = inserted[k][1] => j <= k
           IN  <<Len(inserted[longest][1]), inserted[longest][2]>>

\* C20 (OperatorTrie longest match): after any insert calls of non-empty
\* lexemes, searchLongestMatch(text) returns the length of the longest
\* inserted lexeme the text begins with and the type registered for it, or
\* (0, no type) if the text begins with no inserted lexeme; the length is
\* positive exactly when a type is present, and never exceeds the text's.
C20_LongestMatchReference ==
  \A r \in Range(op_result) :
    /\ r.found = ReferenceMatch(op_inserted, r.text_view)
    /\ r.found[1] > 0 <=> r.found[2] # nullopt
    /\ r.found[1] <= Len(r.text_view)

\* "=" was inserted, then "=!=", then "=" again with another type; the
\* search of "=!!" walked past "=" to a node that ends no token and
\* returned "=" with its second type
C20_Witness ==
  /\ engine = "trie"
  /\ op_inserted = << << <<"=">>, "EQUAL" >>,
                      << <<"=", "!", "=">>, "EQUAL" >>,
                      << <<"=">>, "BANG_EQUAL" >> >>
  /\ op_result # <<>>
  /\ op_result[1].text_view = <<"=", "!", "!">>
  /\ op_result[1].found = <<1, "BANG_EQUAL">>

\* the node the path from the root spells, 0 if the trie has none
RECURSIVE NodeAt(_, _, _, _)
NodeAt(nodes, path, i, current_node) ==
  IF i > Len(path) THEN current_node
  ELSE IF path[i] \in DOMAIN nodes[current_node].children
       THEN NodeAt(nodes, path, i + 1, nodes[current_node].children[path[i]])
       ELSE 0

\* the type the lexeme was last inserted with, nullopt if it never was
RegisteredType(inserted, lexeme) ==
  LET calls == {k \in DOMAIN inserted : inserted[k][1] = lexeme}
  IN  IF calls = {} THEN nullopt
      ELSE inserted[CHOOSE k \in calls : \A j \in calls : j <= k][2]

\* the paths of the trie's nodes
TriePaths(nodes) ==
  {path \in TrieTexts : NodeAt(nodes, path, 1, 1) # 0}

\* C21 (trie terminal invariant): after any insert calls, the nodes of the
\* trie are the root and one node for each non-empty beginning of an
\* inserted lexeme; a node has a type exactly if its path is an inserted
\* lexeme, and the type is the one that lexeme was last inserted with, so
\* a node made on the way to a longer lexeme has none and an insert of
\* another lexeme leaves it as it was.
C21_TerminalInvariant ==
  /\ \A path \in TriePaths(op_trie) :
       op_trie[NodeAt(op_trie, path, 1, 1)].token_type
         = RegisteredType(op_inserted, path)
  /\ \A k \in DOMAIN op_inserted :
       \A n \in 1 .. Len(op_inserted[k][1]) :
         SubSeq(op_inserted[k][1], 1, n) \in TriePaths(op_trie)
  /\ \A path \in TriePaths(op_trie) :
       \/ path = <<>>
       \/ \E k \in DOMAIN op_inserted :
            /\ Len(path) <= Len(op_inserted[k][1])
            /\ SubSeq(op_inserted[k][1], 1, Len(path)) = path
  /\ Len(op_trie) = Cardinality(TriePaths(op_trie))

\* "=!=" was inserted, then "=", then "=!=" with another type: the node of
\* "=!" has no type, that of "=" kept its own, that of "=!=" has the later
C21_Witness ==
  /\ engine = "trie"
  /\ op_inserted = << << <<"=", "!", "=">>, "EQUAL" >>,
                      << <<"=">>, "EQUAL" >>,
                      << <<"=", "!", "=">>, "BANG_EQUAL" >> >>
  /\ NodeAt(op_trie, <<"=", "!">>, 1, 1) # 0
  /\ op_trie[NodeAt(op_trie, <<"=", "!">>, 1, 1)].token_type = nullopt
  /\ op_trie[NodeAt(op_trie, <<"=">>, 1, 1)].token_type = "EQUAL"
  /\ op_trie[NodeAt(op_trie, <<"=", "!", "=">>, 1, 1)].token_type
       = "BANG_EQUAL"

\* C22 (lookup structures are read-only): in every state of a scan the
\* OperatorTrie and the keyword map are what the setup made them, whatever
\* matchers have run, lookups included; they are at the end of every call.
C22_LookupReadOnly ==
  /\ op_trie = operator_trie_
  /\ keywords_map = keywords_map_
  /\ op_inserted = OperatorTable

\* a call has ended in which the operator matcher looked "=" up in the
\* trie and the identifier matcher looked "var" up in the map
C22_Witness ==
  /\ runs # <<>>
  /\ pc # "loop"
  /\ \E s \in Range(runs[1].steps) :
       s.matcher = 7 /\ s.out[1].type = "EQUAL"
  /\ \E s \in Range(runs[1].steps) :
       s.matcher = 6 /\ s.out[1].type = "VAR"
  /\ op_trie = operator_trie_
  /\ keywords_map = keywords_map_

\* C23 (number parse failure): an iteration entered at a number lexeme
\* whose conversion fails is handled by the number matcher; it prints no
\* token, reports one number-literal error with the line of the iteration
\* and the lexeme, sets the flag, leaves the line as it is and the offset
\* after the whole lexeme; the next iteration is entered there, and the
\* iteration reports no unexpected character.
C23_NumberParseFailure ==
  \A k \in DOMAIN steps :
    source_view[steps[k].pos + 1] \in Digit
    => \A end \in {NumberEnd(source_view, steps[k].pos)} :
         \A lexeme \in {SubSeq(source_view, steps[k].pos + 1, end)} :
           \A converted \in {stod(lexeme)} :
             LET s == steps[k]
             IN  converted.status # "ok"
                 => /\ s.matcher = 5
                    /\ s.out = <<>>
                    /\ Len(s.err) = 1
                    /\ s.err[1].what
                         \in {"Number literal out of range: ",
                              "Invalid number format (stod failed): "}
                    /\ s.err[1].line = s.line
                    /\ s.err[1].text = lexeme
                    /\ s.in_error_after
                    /\ s.line_after = s.line
                    /\ s.pos_after = end
                    /\ k < Len(steps) => steps[k + 1].pos = end
                    /\ \A j \in DOMAIN steps :
                         steps[j].pos \notin s.pos + 1 .. end - 1

\* 2^1024 on the second line was reported out of range with line 2, and
\* the "==" after it was printed as the only token before the character
\* no matcher takes was reported
C23_Witness ==
  /\ source_view = BeyondDouble
  /\ Len(steps) = 4
  /\ steps[2].matcher = 5
  /\ steps[2].err[1].what = "Number literal out of range: "
  /\ steps[2].err[1].line = 2
  /\ out = <<Token("EQUAL_EQUAL", <<"=", "=">>, null)>>
  /\ Len(err) = 2
  /\ err[2].what = "Unexpected character: "

\* C24 (leading dot): at an iteration entered at a '.', a digit behind it
\* or not, the number matcher declines; the iteration is the operator
\* matcher's, prints the token DOT for the '.' alone and reports nothing;
\* if a digit follows, the next iteration is entered at it, is the number
\* matcher's, and prints one NUMBER token whose lexeme begins at that digit.
C24_LeadingDot ==
  \A k \in DOMAIN steps :
    LET s == steps[k]
    IN  source_view[s.pos + 1] = "."
        => /\ ~callMatcher(engine, 5, ContextOf(s)).handled
           /\ s.matcher = 7
           /\ s.out = <<Token("DOT", <<".">>, null)>>
           /\ s.err = <<>>
           /\ s.pos_after = s.pos + 1
           /\ (/\ s.pos + 1 < Len(source_view)
               /\ source_view[s.pos + 2] \in Digit
               /\ k < Len(steps))
              => /\ steps[k + 1].pos = s.pos + 1
                 /\ steps[k + 1].matcher = 5
                 /\ Len(steps[k + 1].out) = 1
                 /\ steps[k + 1].out[1].type = "NUMBER"
                 /\ steps[k + 1].out[1].lexeme
                      = SubSeq(source_view, s.pos + 2,
                               NumberEnd(source_view, s.pos + 1))

\* ".11" was printed as DOT and the number 11
C24_Witness ==
  /\ source_view = <<".", "1", "1">>
  /\ out = <<Token("DOT", <<".">>, null),
             Token("NUMBER", <<"1", "1">>, <<"1", "1", ".", "0">>)>>
  /\ err = <<>>

\* C25 (a matcher that declines changes nothing): each of the seven
\* matchers, called at the position of an iteration, either declines and
\* leaves the context as it is and prints and reports nothing, or handles
\* the position and leaves the offset greater; so an iteration that a
\* matcher handles has the effect of that matcher alone, and one that none
\* handles has only the driver's: one error and one character.
C25_DeclineChangesNothing ==
  \A s \in Range(steps) :
    \A entered \in {ContextOf(s)} :
      /\ \A i \in 1 .. NumMatchers :
           \A r \in {callMatcher(engine, i, entered)} :
             /\ ~r.handled => r.ctx = entered /\ r.out = <<>> /\ r.err = <<>>
             /\ r.handled => r.ctx.current_pos >= entered.current_pos + 1
             /\ r.handled => s.matcher \in 1 .. i
             /\ s.matcher = i
                => /\ r.handled
                   /\ s.out = r.out
                   /\ s.err = r.err
                   /\ s.pos_after = r.ctx.current_pos
                   /\ s.line_after = r.ctx.current_line
                   /\ s.in_error_after = r.ctx.in_error_flag
      /\ s.matcher = 0
         => /\ s.out = <<>>
            /\ Len(s.err) = 1
            /\ s.pos_after = s.pos + 1
            /\ s.line_after = s.line

\* the operator matcher handled an iteration that the six before it
\* declined, and a later iteration was declined by all seven
C25_Witness ==
  \E k \in DOMAIN steps :
    /\ k < Len(steps)
    /\ steps[k].matcher = 7
    /\ steps[k].pos_after = steps[k].pos + 2
    /\ steps[Len(steps)].matcher = 0
    /\ \A i \in 1 .. NumMatchers :
         ~callMatcher(engine, i, ContextOf(steps[Len(steps)])).handled

\* the slices of the source the steps consumed, one after the other
RECURSIVE SlicesOf(_, _)
SlicesOf(view, iterations) ==
  IF iterations = <<>> THEN <<>>
  ELSE SubSeq(view, iterations[1].pos + 1, iterations[1].pos_after)
       \o SlicesOf(view, Tail(iterations))

\* C26 (tokens partition the source in order): every iteration consumes the
\* non-empty slice of the source from the offset it is entered at to the
\* offset it leaves; the first iteration of a scan from a fresh cursor is
\* entered at offset 0 and every later one where the one before it left
\* off; an iteration prints at most one token, and the lexeme of that token
\* is the slice the iteration consumed; the token lines printed so far are
\* those of the iterations in their order; and the slices of a completed
\* scan from a fresh cursor, put one after the other, are the source.
C26_TokensPartitionSource ==
  /\ \A k \in DOMAIN steps :
       LET s == steps[k]
       IN  /\ s.pos < s.pos_after
           /\ s.pos_after <= Len(source_view)
           /\ (k = 1 /\ runs = <<>>) => s.pos = 0
           /\ k > 1 => s.pos = steps[k - 1].pos_after
           /\ Len(s.out) <= 1
           /\ \A t \in Range(s.out) :
                /\ t.type # "EOF"
                /\ t.lexeme = SubSeq(source_view, s.pos + 1, s.pos_after)
  /\ steps # <<>> => current_pos = steps[Len(steps)].pos_after
  /\ pc = "loop" => out = TokensOf(steps)
  /\ \A r \in FirstRun :
       /\ SlicesOf(source_view, r.steps) = source_view
       /\ TokenLines(r) = TokensOf(r.steps)

\* a completed scan whose iterations printed three tokens, one of them of
\* two characters or more, and two of whose iterations printed none
C26_Witness ==
  \E r \in FirstRun :
    /\ Len(TokenLines(r)) >= 3
    /\ \E s \in Range(r.steps) : s.out # <<>> /\ s.pos_after >= s.pos + 2
    /\ Cardinality({k \in DOMAIN r.steps : r.steps[k].out = <<>>}) >= 2
    /\ SlicesOf(source_view, r.steps) = source_view

\* the engine that is not e
OtherEngine(e) == IF e = "main" THEN "scanner" ELSE "main"

\* C27 (the two engines are equivalent): for every source, the scan from a
\* fresh cursor by one engine and the while loop of the other engine run
\* from a fresh cursor over the same source print the same token lines
\* other than EOF (type, lexeme and literal), report the same errors with
\* the same line numbers, and end with the same offset, line and error
\* flag.
C27_EnginesEquivalent ==
  \A r \in FirstRun :
    \A other \in {whileLoop(OtherEngine(engine), freshContext(source_view),
                            <<>>, <<>>)} :
      /\ TokenLines(r) = other.out
      /\ r.err = other.err
      /\ r.pos = other.ctx.current_pos
      /\ r.line = other.ctx.current_line
      /\ r.returned = other.ctx.in_error_flag

====
